---- MODULE Spec2Model ----
(***************************************************************************)
(* Model of the controller remapper of xhook (src/src/xhook.c, the part    *)
(* from line 663 on): the chord state, the per-application dispatch, the   *)
(* synthetic-event emission to the uinput sink and the poll timeout that   *)
(* drives mouse emulation.                                                 *)
(*                                                                         *)
(* A C function is the sequence of the effects it performs, in program     *)
(* order: the records it writes to the sink, its stores to the fields of   *)
(* struct state, its sleeps and the subprocesses it forks.  What it reads  *)
(* of struct state is a parameter.                                         *)
(***************************************************************************)
EXTENDS Integers, Sequences, FiniteSets, TLC

VARIABLES
    k,                        \* struct keys: up, down, right, left, select, start, a, b
    mouse_mode,               \* s->mouse_mode
    mouse_movement_distance,  \* s->mouse_movement_distance
    running,                  \* s->running
    win,                      \* WM_CLASS strings of the focused window
    op,                       \* where the process is: "poll", or the handler it ran
    ev,                       \* the input event the handler was given
    arg,                      \* the arguments of a call made on its own
    before,                   \* struct keys as it was before that call
    trace,                    \* the effects of the handler or call that ran last
    menu,                     \* the detached menu process: its run_menu frames
    dev,                      \* the input device as poll and read see it, the
                              \* timeout of the last poll, and the state of
                              \* the uinput device
    sink,                     \* the keys whose last record on the uinput
                              \* device has value 1: a history that SpecKeys
                              \* keeps, the other specifications leave it
    st                        \* the layout switcher: its struct state and the
                              \* window that has the input focus

vars == <<k, mouse_mode, mouse_movement_distance, running, win, op, ev, arg,
          before, trace, menu, dev, sink, st>>

----------------------------------------------------------------------------
(* Bounds *)

\* no timeout tick takes the distance beyond this value
MaxDistance == 11

\* the user holds at most this many controls of the controller at a time
MaxHeld == 2

\* largest distance emit_mouse_movements is called with on its own
MaxEmitDistance == 25

\* a run_menu call gets at most this many reads that return only a part of
\* what the chooser has left to say
MaxShortReads == 1

\* the input device has at most this many events buffered when poll returns
MaxBuffered == 2

\* while a menu process writes, main dispatches no further event once this
\* many records are on the uinput device
MaxWritten == 8

----------------------------------------------------------------------------
(* Codes *)

DPAD_UP == 300
DPAD_RIGHT == 301
DPAD_DOWN == 302
DPAD_LEFT == 303
BTN_THUMB == 289
BTN_THUMB2 == 290
BTN_BASE3 == 296
BTN_BASE4 == 297

EV_KEY == "EV_KEY"
EV_REL == "EV_REL"
EV_SYN == "EV_SYN"
SYN_REPORT == "SYN_REPORT"

\* the value handle_timeout resets the distance to
Floor == 10

\* the timeouts of poll, in milliseconds
ShortTimeout == 10
LongTimeout == 10000

----------------------------------------------------------------------------
(* struct mod, struct keys *)

NoMod == [shift |-> 0, meta |-> 0, alt |-> 0, ctrl |-> 0, super |-> 0]

ModSets == [shift : {0, 1}, meta : {0, 1}, alt : {0, 1}, ctrl : {0, 1},
            super : {0, 1}]

NoKeys == [up |-> 0, down |-> 0, right |-> 0, left |-> 0, select |-> 0,
           start |-> 0, a |-> 0, b |-> 0]

FlagNames == {"up", "down", "right", "left", "select", "start", "a", "b"}

----------------------------------------------------------------------------
(* Effects *)

\* s->field = value
Store(field, value) == <<[type |-> "store", code |-> field, value |-> value]>>

\* the value of a field after the stores of the effects t
Stored(t, field, old) ==
    LET at == {i \in 1..Len(t) : t[i].type = "store" /\ t[i].code = field}
    IN  IF at = {} THEN old
        ELSE t[CHOOSE i \in at : \A j \in at : j <= i].value

\* a condition of an if statement without else
When(cond, t) == IF cond THEN t ELSE <<>>

\* r_failwith: the diagnostic, then the process ends
failwith(msg) == <<[type |-> "abort", code |-> msg, value |-> 0]>>

Aborts(t) == t # <<>> /\ t[Len(t)].type = "abort"

\* the places of the emit_event calls in the effects t
Writes(t) == {j \in 1..Len(t) : t[j].type \in {EV_KEY, EV_REL, EV_SYN}}

\* emit_event that goes on after a short write
Written_goes_on(t, i) ==
    IF i = 0 THEN t
    ELSE LET p == CHOOSE j \in Writes(t) :
                      Cardinality({q \in Writes(t) : q <= j}) = i
         IN  SubSeq(t, 1, p - 1)
             \o <<[type |-> "short", code |-> t[p].code, value |-> t[p].value]>>
             \o SubSeq(t, p, Len(t))

\* the effects t when the write of its i-th emit_event call returns fewer
\* bytes than the record has (i = 0: every write is complete)
Written(t, i) ==
    IF i = 0 THEN t
    ELSE LET p == CHOOSE j \in Writes(t) :
                      Cardinality({q \in Writes(t) : q <= j}) = i
         IN  SubSeq(t, 1, p - 1)
             \o <<[type |-> "short", code |-> t[p].code, value |-> t[p].value]>>
             \o failwith("unexpected partial write")

----------------------------------------------------------------------------
(* Event synthesizer *)

emit_event(type, code, value) ==
    <<[type |-> type, code |-> code, value |-> value]>>

\* nanosleep of 100 ms
tiny_sleep == <<[type |-> "sleep", code |-> "tiny_sleep", value |-> 100]>>

\* emit_key_event that releases the modifiers in the order it pressed them
emit_key_event_same_order(key, state, m) ==
    IF state # 0
    THEN When(m.shift # 0, emit_event(EV_KEY, "KEY_LEFTSHIFT", 1))
         \o When(m.meta # 0, emit_event(EV_KEY, "KEY_LEFTMETA", 1) \o tiny_sleep)
         \o When(m.alt # 0, emit_event(EV_KEY, "KEY_LEFTALT", 1))
         \o When(m.super # 0, emit_event(EV_KEY, "KEY_RIGHTMETA", 1))
         \o When(m.ctrl # 0, emit_event(EV_KEY, "KEY_LEFTCTRL", 1))
         \o emit_event(EV_SYN, SYN_REPORT, 0)
         \o emit_event(EV_KEY, key, 1)
         \o emit_event(EV_SYN, SYN_REPORT, 0)
    ELSE emit_event(EV_KEY, key, 0)
         \o emit_event(EV_SYN, SYN_REPORT, 0)
         \o When(m.shift # 0, emit_event(EV_KEY, "KEY_LEFTSHIFT", 0))
         \o When(m.meta # 0, emit_event(EV_KEY, "KEY_LEFTMETA", 0))
         \o When(m.alt # 0, emit_event(EV_KEY, "KEY_LEFTALT", 0))
         \o When(m.super # 0, emit_event(EV_KEY, "KEY_RIGHTMETA", 0))
         \o When(m.ctrl # 0, emit_event(EV_KEY, "KEY_LEFTCTRL", 0))
         \o emit_event(EV_SYN, SYN_REPORT, 0)

\* emit_key_event that presses ctrl before super
emit_key_event_ctrl_first(key, state, m) ==
    IF state # 0
    THEN When(m.shift # 0, emit_event(EV_KEY, "KEY_LEFTSHIFT", 1))
         \o When(m.meta # 0, emit_event(EV_KEY, "KEY_LEFTMETA", 1) \o tiny_sleep)
         \o When(m.alt # 0, emit_event(EV_KEY, "KEY_LEFTALT", 1))
         \o When(m.ctrl # 0, emit_event(EV_KEY, "KEY_LEFTCTRL", 1))
         \o When(m.super # 0, emit_event(EV_KEY, "KEY_RIGHTMETA", 1))
         \o emit_event(EV_SYN, SYN_REPORT, 0)
         \o emit_event(EV_KEY, key, 1)
         \o emit_event(EV_SYN, SYN_REPORT, 0)
    ELSE emit_event(EV_KEY, key, 0)
         \o emit_event(EV_SYN, SYN_REPORT, 0)
         \o When(m.super # 0, emit_event(EV_KEY, "KEY_RIGHTMETA", 0))
         \o When(m.ctrl # 0, emit_event(EV_KEY, "KEY_LEFTCTRL", 0))
         \o When(m.alt # 0, emit_event(EV_KEY, "KEY_LEFTALT", 0))
         \o When(m.meta # 0, emit_event(EV_KEY, "KEY_LEFTMETA", 0))
         \o When(m.shift # 0, emit_event(EV_KEY, "KEY_LEFTSHIFT", 0))
         \o emit_event(EV_SYN, SYN_REPORT, 0)

emit_key_event(key, state, m) ==
    IF state # 0
    THEN When(m.shift # 0, emit_event(EV_KEY, "KEY_LEFTSHIFT", 1))
         \o When(m.meta # 0, emit_event(EV_KEY, "KEY_LEFTMETA", 1) \o tiny_sleep)
         \o When(m.alt # 0, emit_event(EV_KEY, "KEY_LEFTALT", 1))
         \o When(m.super # 0, emit_event(EV_KEY, "KEY_RIGHTMETA", 1))
         \o When(m.ctrl # 0, emit_event(EV_KEY, "KEY_LEFTCTRL", 1))
         \o emit_event(EV_SYN, SYN_REPORT, 0)
         \o emit_event(EV_KEY, key, 1)
         \o emit_event(EV_SYN, SYN_REPORT, 0)
    ELSE emit_event(EV_KEY, key, 0)
         \o emit_event(EV_SYN, SYN_REPORT, 0)
         \o When(m.ctrl # 0, emit_event(EV_KEY, "KEY_LEFTCTRL", 0))
         \o When(m.super # 0, emit_event(EV_KEY, "KEY_RIGHTMETA", 0))
         \o When(m.alt # 0, emit_event(EV_KEY, "KEY_LEFTALT", 0))
         \o When(m.meta # 0, emit_event(EV_KEY, "KEY_LEFTMETA", 0))
         \o When(m.shift # 0, emit_event(EV_KEY, "KEY_LEFTSHIFT", 0))
         \o emit_event(EV_SYN, SYN_REPORT, 0)

emit_key_press_mod(key, m) ==
    emit_key_event(key, 1, m) \o emit_key_event(key, 0, m)

\* emit_key_press that leaves the key pressed
emit_key_press_no_release(key) == emit_key_event(key, 1, NoMod)

emit_key_press(key) == emit_key_press_mod(key, NoMod)

----------------------------------------------------------------------------
(* Mouse emulation; kk and dist are s->k and s->mouse_movement_distance    *)

\* emit_mouse_movements that writes the sync record unconditionally
emit_mouse_movements_always_sync(kk, dist) ==
    LET d == dist \div 10
        x == (IF kk.left # 0 THEN -d ELSE 0) + (IF kk.right # 0 THEN d ELSE 0)
        y == (IF kk.up # 0 THEN -d ELSE 0) + (IF kk.down # 0 THEN d ELSE 0)
    IN  When(x # 0, emit_event(EV_REL, "REL_X", x))
        \o When(y # 0, emit_event(EV_REL, "REL_Y", y))
        \o emit_event(EV_SYN, SYN_REPORT, 0)

emit_mouse_movements(kk, dist) ==
    LET d == dist \div 10
        x == (IF kk.left # 0 THEN -d ELSE 0) + (IF kk.right # 0 THEN d ELSE 0)
        y == (IF kk.up # 0 THEN -d ELSE 0) + (IF kk.down # 0 THEN d ELSE 0)
    IN  When(x # 0, emit_event(EV_REL, "REL_X", x))
        \o When(y # 0, emit_event(EV_REL, "REL_Y", y))
        \o When(x # 0 \/ y # 0, emit_event(EV_SYN, SYN_REPORT, 0))

map_dpad_to_mouse(kk, dist) ==
    Store("mouse_mode", 1) \o emit_mouse_movements(kk, dist)

\* handle_timeout that resets the distance and leaves mouse_mode set
handle_timeout_keeps_mode(kk, mm, dist) ==
    IF mm # 0
    THEN IF kk.up = 0 /\ kk.down = 0 /\ kk.left = 0 /\ kk.right = 0
         THEN Store("mouse_movement_distance", Floor)
         ELSE emit_mouse_movements(kk, dist)
              \o Store("mouse_movement_distance", dist + 1)
    ELSE <<>>

\* handle_timeout that increments the distance before it emits the burst
handle_timeout_increment_first(kk, mm, dist) ==
    IF mm # 0
    THEN IF kk.up = 0 /\ kk.down = 0 /\ kk.left = 0 /\ kk.right = 0
         THEN Store("mouse_mode", 0) \o Store("mouse_movement_distance", Floor)
         ELSE Store("mouse_movement_distance", dist + 1)
              \o emit_mouse_movements(kk, dist + 1)
    ELSE <<>>

handle_timeout(kk, mm, dist) ==
    IF mm # 0
    THEN IF kk.up = 0 /\ kk.down = 0 /\ kk.left = 0 /\ kk.right = 0
         THEN Store("mouse_mode", 0) \o Store("mouse_movement_distance", Floor)
         ELSE emit_mouse_movements(kk, dist)
              \o Store("mouse_movement_distance", dist + 1)
    ELSE <<>>

----------------------------------------------------------------------------
(* Subprocesses forked by the remapper: the parent only forks and reaps    *)
(* the intermediate child, the detached grandchild runs on its own.        *)

show_window_outline == <<[type |-> "fork", code |-> "outline", value |-> 0]>>

launch_menu == <<[type |-> "fork", code |-> "menu", value |-> 0]>>

----------------------------------------------------------------------------
(* Window context *)

\* a focused window without a WM_CLASS property: XGetWindowProperty returns
\* the type None, nothing is read
NoClass == {}

xlib_window_has_class(w, cls) == cls \in w

----------------------------------------------------------------------------
(* Chord state *)

IsPressOrRelease(e) == e.value = 1 \/ e.value = 0

\* update_key_state whose DPAD_LEFT case also writes the right flag
update_key_state_crosstalk(e) ==
    When(e.code = DPAD_LEFT /\ IsPressOrRelease(e),
         Store("left", e.value) \o Store("right", e.value))
    \o When(e.code = DPAD_RIGHT /\ IsPressOrRelease(e), Store("right", e.value))
    \o When(e.code = DPAD_UP /\ IsPressOrRelease(e), Store("up", e.value))
    \o When(e.code = DPAD_DOWN /\ IsPressOrRelease(e), Store("down", e.value))
    \o When(e.code = BTN_BASE3 /\ IsPressOrRelease(e),
            Store("select", e.value) \o When(e.value = 1, show_window_outline))
    \o When(e.code = BTN_BASE4 /\ IsPressOrRelease(e), Store("start", e.value))
    \o When(e.code = BTN_THUMB /\ IsPressOrRelease(e), Store("a", e.value))
    \o When(e.code = BTN_THUMB2 /\ IsPressOrRelease(e), Store("b", e.value))

\* update_key_state whose BTN_THUMB case takes every non-zero value as a press
update_key_state_any_value(e) ==
    When(e.code = DPAD_LEFT /\ IsPressOrRelease(e), Store("left", e.value))
    \o When(e.code = DPAD_RIGHT /\ IsPressOrRelease(e), Store("right", e.value))
    \o When(e.code = DPAD_UP /\ IsPressOrRelease(e), Store("up", e.value))
    \o When(e.code = DPAD_DOWN /\ IsPressOrRelease(e), Store("down", e.value))
    \o When(e.code = BTN_BASE3 /\ IsPressOrRelease(e),
            Store("select", e.value) \o When(e.value = 1, show_window_outline))
    \o When(e.code = BTN_BASE4 /\ IsPressOrRelease(e), Store("start", e.value))
    \o When(e.code = BTN_THUMB, Store("a", IF e.value = 0 THEN 0 ELSE 1))
    \o When(e.code = BTN_THUMB2 /\ IsPressOrRelease(e), Store("b", e.value))

update_key_state(e) ==
    When(e.code = DPAD_LEFT /\ IsPressOrRelease(e), Store("left", e.value))
    \o When(e.code = DPAD_RIGHT /\ IsPressOrRelease(e), Store("right", e.value))
    \o When(e.code = DPAD_UP /\ IsPressOrRelease(e), Store("up", e.value))
    \o When(e.code = DPAD_DOWN /\ IsPressOrRelease(e), Store("down", e.value))
    \o When(e.code = BTN_BASE3 /\ IsPressOrRelease(e),
            Store("select", e.value) \o When(e.value = 1, show_window_outline))
    \o When(e.code = BTN_BASE4 /\ IsPressOrRelease(e), Store("start", e.value))
    \o When(e.code = BTN_THUMB /\ IsPressOrRelease(e), Store("a", e.value))
    \o When(e.code = BTN_THUMB2 /\ IsPressOrRelease(e), Store("b", e.value))

\* struct keys after the stores of the effects t
Keys(kk, t) == [f \in FlagNames |-> Stored(t, f, kk[f])]

----------------------------------------------------------------------------
(* Remap dispatcher; kk and dist are s->k and s->mouse_movement_distance   *)
(* as update_key_state has left them                                       *)

\* if(e->code == code && e->value == 1) emit_key_press_mod(s, key, m)
OnPress(e, code, key, m) ==
    When(e.code = code /\ e.value = 1, emit_key_press_mod(key, m))

\* if(e->code == code && e->value == 1) emit_key_press(s, key)
OnPressKey(e, code, key) ==
    When(e.code = code /\ e.value = 1, emit_key_press(key))

\* if(e->code == code && (e->value == 1 || e->value == 0))
\*     { emit_event(EV_KEY, key, e->value); emit_event(EV_SYN, SYN_REPORT, 0); }
Forward(e, code, key) ==
    When(e.code = code /\ IsPressOrRelease(e),
         emit_event(EV_KEY, key, e.value) \o emit_event(EV_SYN, SYN_REPORT, 0))

\* if(e->code == code && (e->value == 1 || e->value == 0))
\*     emit_key_event(s, key, e->value, m)
ForwardMod(e, code, key, m) ==
    When(e.code = code /\ IsPressOrRelease(e), emit_key_event(key, e.value, m))

\* map_dpad_to_arrow_keys writing a whole key press for a dpad press
map_dpad_to_arrow_keys_press_release(e) ==
    Store("mouse_mode", 0)
    \o OnPressKey(e, DPAD_UP, "KEY_UP")
    \o OnPressKey(e, DPAD_DOWN, "KEY_DOWN")
    \o OnPressKey(e, DPAD_RIGHT, "KEY_RIGHT")
    \o OnPressKey(e, DPAD_LEFT, "KEY_LEFT")

map_dpad_to_arrow_keys(e) ==
    Store("mouse_mode", 0)
    \o Forward(e, DPAD_UP, "KEY_UP")
    \o Forward(e, DPAD_DOWN, "KEY_DOWN")
    \o Forward(e, DPAD_RIGHT, "KEY_RIGHT")
    \o Forward(e, DPAD_LEFT, "KEY_LEFT")

\* select_chord without the outline of the window the focus moved to
select_chord_no_outline(e) ==
    OnPress(e, DPAD_UP, "KEY_TAB", [NoMod EXCEPT !.alt = 1])
    \o OnPress(e, DPAD_DOWN, "KEY_ENTER", [NoMod EXCEPT !.alt = 1])
    \o OnPress(e, DPAD_LEFT, "KEY_H", [NoMod EXCEPT !.alt = 1])
    \o OnPress(e, DPAD_RIGHT, "KEY_L", [NoMod EXCEPT !.alt = 1])
    \o When(e.code = BTN_BASE4 /\ e.value = 1, launch_menu)
    \o OnPress(e, BTN_THUMB, "KEY_SPACE", [NoMod EXCEPT !.alt = 1])
    \o OnPress(e, BTN_THUMB2, "KEY_C", [NoMod EXCEPT !.shift = 1, !.alt = 1])

select_chord(e) ==
    When(e.code = DPAD_UP /\ e.value = 1,
         emit_key_press_mod("KEY_TAB", [NoMod EXCEPT !.alt = 1])
         \o show_window_outline)
    \o OnPress(e, DPAD_DOWN, "KEY_ENTER", [NoMod EXCEPT !.alt = 1])
    \o When(e.code = DPAD_LEFT /\ e.value = 1,
            emit_key_press_mod("KEY_H", [NoMod EXCEPT !.alt = 1])
            \o show_window_outline)
    \o When(e.code = DPAD_RIGHT /\ e.value = 1,
            emit_key_press_mod("KEY_L", [NoMod EXCEPT !.alt = 1])
            \o show_window_outline)
    \o When(e.code = BTN_BASE4 /\ e.value = 1, launch_menu)
    \o OnPress(e, BTN_THUMB, "KEY_SPACE", [NoMod EXCEPT !.alt = 1])
    \o OnPress(e, BTN_THUMB2, "KEY_C", [NoMod EXCEPT !.shift = 1, !.alt = 1])

app_feh(kk, e) ==
    IF kk.b # 0
    THEN ForwardMod(e, DPAD_UP, "KEY_UP", [NoMod EXCEPT !.ctrl = 1])
         \o ForwardMod(e, DPAD_DOWN, "KEY_DOWN", [NoMod EXCEPT !.ctrl = 1])
         \o ForwardMod(e, DPAD_LEFT, "KEY_LEFT", [NoMod EXCEPT !.ctrl = 1])
         \o ForwardMod(e, DPAD_RIGHT, "KEY_RIGHT", [NoMod EXCEPT !.ctrl = 1])
         \o OnPressKey(e, BTN_THUMB, "KEY_Z")
    ELSE map_dpad_to_arrow_keys(e)
         \o OnPressKey(e, BTN_THUMB, "KEY_H")

\* app_mpv without its B layer
app_mpv_ignores_b(kk, e) ==
    OnPressKey(e, BTN_THUMB, "KEY_SPACE")
    \o map_dpad_to_arrow_keys(e)

app_mpv(kk, e) ==
    IF kk.b # 0
    THEN OnPressKey(e, BTN_THUMB, "KEY_M")
         \o OnPressKey(e, DPAD_UP, "KEY_L")
         \o OnPress(e, DPAD_DOWN, "KEY_L", [NoMod EXCEPT !.shift = 1])
         \o OnPressKey(e, DPAD_RIGHT, "KEY_ENTER")
         \o OnPressKey(e, DPAD_LEFT, "KEY_102ND")
    ELSE OnPressKey(e, BTN_THUMB, "KEY_SPACE")
         \o map_dpad_to_arrow_keys(e)

app_streamlink(kk, dist, e) ==
    IF kk.b # 0
    THEN OnPressKey(e, BTN_THUMB, "KEY_F5")
    ELSE Forward(e, BTN_THUMB, "BTN_LEFT")
         \o map_dpad_to_mouse(kk, dist)

\* chromium without the s->mouse_mode = 0 of its B branch
app_chromium_keeps_mouse_mode(kk, dist, e) ==
    IF kk.b # 0
    THEN OnPressKey(e, DPAD_UP, "KEY_F")
         \o Forward(e, DPAD_RIGHT, "KEY_RIGHT")
         \o Forward(e, DPAD_LEFT, "KEY_LEFT")
         \o OnPressKey(e, DPAD_DOWN, "KEY_F5")
         \o OnPressKey(e, BTN_THUMB, "KEY_SPACE")
    ELSE Forward(e, BTN_THUMB, "BTN_LEFT")
         \o map_dpad_to_mouse(kk, dist)

app_chromium(kk, dist, e) ==
    IF kk.b # 0
    THEN OnPressKey(e, DPAD_UP, "KEY_F")
         \o Forward(e, DPAD_RIGHT, "KEY_RIGHT")
         \o Forward(e, DPAD_LEFT, "KEY_LEFT")
         \o OnPressKey(e, DPAD_DOWN, "KEY_F5")
         \o OnPressKey(e, BTN_THUMB, "KEY_SPACE")
         \o Store("mouse_mode", 0)
    ELSE Forward(e, BTN_THUMB, "BTN_LEFT")
         \o map_dpad_to_mouse(kk, dist)

app_dmenu(e) ==
    OnPressKey(e, BTN_THUMB, "KEY_ENTER")
    \o OnPressKey(e, BTN_THUMB2, "KEY_ESC")
    \o map_dpad_to_arrow_keys(e)

app_spotify(kk, dist, e) ==
    IF kk.b # 0
    THEN OnPressKey(e, BTN_THUMB, "KEY_SPACE")
         \o Forward(e, DPAD_UP, "KEY_UP")
         \o Forward(e, DPAD_DOWN, "KEY_DOWN")
         \o OnPressKey(e, DPAD_RIGHT, "KEY_ENTER")
         \o Store("mouse_mode", 0)
    ELSE OnPressKey(e, BTN_THUMB, "BTN_LEFT")
         \o map_dpad_to_mouse(kk, dist)

app_obs(kk, e) ==
    IF kk.b # 0
    THEN OnPressKey(e, DPAD_UP, "KEY_F9")
         \o OnPress(e, DPAD_DOWN, "KEY_F9", [NoMod EXCEPT !.shift = 1])
         \o OnPressKey(e, BTN_THUMB, "KEY_F10")
    ELSE OnPressKey(e, DPAD_DOWN, "KEY_F3")
         \o OnPressKey(e, DPAD_UP, "KEY_F5")
         \o OnPressKey(e, DPAD_LEFT, "KEY_F1")
         \o OnPressKey(e, DPAD_RIGHT, "KEY_F2")
         \o OnPressKey(e, BTN_THUMB, "KEY_F8")

app_sausage(e) ==
    OnPressKey(e, BTN_THUMB, "KEY_Z")
    \o OnPressKey(e, BTN_THUMB2, "KEY_R")
    \o map_dpad_to_arrow_keys(e)

\* the application chain with the test for mpv ahead of the test for feh, and
\* the test for spotify ahead of the test for chromium
app_chain_later_first(kk, dist, e, w) ==
    IF xlib_window_has_class(w, "mpv") THEN app_mpv(kk, e)
    ELSE IF xlib_window_has_class(w, "feh") THEN app_feh(kk, e)
    ELSE IF xlib_window_has_class(w, "streamlink-twitch-gui")
         THEN app_streamlink(kk, dist, e)
    ELSE IF xlib_window_has_class(w, "spotify") THEN app_spotify(kk, dist, e)
    ELSE IF xlib_window_has_class(w, "chromium") THEN app_chromium(kk, dist, e)
    ELSE IF xlib_window_has_class(w, "dmenu") THEN app_dmenu(e)
    ELSE IF xlib_window_has_class(w, "obs") THEN app_obs(kk, e)
    ELSE IF xlib_window_has_class(w, "Sausage.x86_64") THEN app_sausage(e)
    ELSE <<>>

app_chain(kk, dist, e, w) ==
    IF xlib_window_has_class(w, "feh") THEN app_feh(kk, e)
    ELSE IF xlib_window_has_class(w, "mpv") THEN app_mpv(kk, e)
    ELSE IF xlib_window_has_class(w, "streamlink-twitch-gui")
         THEN app_streamlink(kk, dist, e)
    ELSE IF xlib_window_has_class(w, "chromium") THEN app_chromium(kk, dist, e)
    ELSE IF xlib_window_has_class(w, "dmenu") THEN app_dmenu(e)
    ELSE IF xlib_window_has_class(w, "spotify") THEN app_spotify(kk, dist, e)
    ELSE IF xlib_window_has_class(w, "obs") THEN app_obs(kk, e)
    ELSE IF xlib_window_has_class(w, "Sausage.x86_64") THEN app_sausage(e)
    ELSE <<>>

\* handle_event without the test of the record's type
handle_event_any_type(kk, dist, e, w) ==
    LET t == update_key_state(e)
        k1 == Keys(kk, t)
    IN  t \o (IF k1.select # 0
              THEN select_chord(e)
              ELSE OnPress(e, BTN_BASE4, "KEY_K", [NoMod EXCEPT !.alt = 1])
                   \o app_chain(k1, dist, e, w))

\* handle_event without the return that ends the select chord
handle_event_chord_falls_through(kk, dist, e, w) ==
    IF e.type # EV_KEY
    THEN <<>>
    ELSE LET t == update_key_state(e)
             k1 == Keys(kk, t)
         IN  t \o When(k1.select # 0, select_chord(e))
               \o OnPress(e, BTN_BASE4, "KEY_K", [NoMod EXCEPT !.alt = 1])
               \o app_chain(k1, dist, e, w)

\* handle_event with the start default applied to the release as well
handle_event_start_on_release(kk, dist, e, w) ==
    IF e.type # EV_KEY
    THEN <<>>
    ELSE LET t == update_key_state(e)
             k1 == Keys(kk, t)
         IN  t \o (IF k1.select # 0
                   THEN select_chord(e)
                   ELSE When(e.code = BTN_BASE4 /\ IsPressOrRelease(e),
                             emit_key_press_mod("KEY_K", [NoMod EXCEPT !.alt = 1]))
                        \o app_chain(k1, dist, e, w))

\* handle_event choosing the layer from the flags as they were before the
\* update
handle_event_dispatch_before_update(kk, dist, e, w) ==
    IF e.type # EV_KEY
    THEN <<>>
    ELSE update_key_state(e)
         \o (IF kk.select # 0
             THEN select_chord(e)
             ELSE OnPress(e, BTN_BASE4, "KEY_K", [NoMod EXCEPT !.alt = 1])
                  \o app_chain(kk, dist, e, w))

handle_event(kk, dist, e, w) ==
    IF e.type # EV_KEY
    THEN <<>>
    ELSE LET t == update_key_state(e)
             k1 == Keys(kk, t)
         IN  t \o (IF k1.select # 0
                   THEN select_chord(e)
                   ELSE OnPress(e, BTN_BASE4, "KEY_K", [NoMod EXCEPT !.alt = 1])
                        \o app_chain(k1, dist, e, w))

----------------------------------------------------------------------------
(* Inputs *)

TrackedCodes == {DPAD_UP, DPAD_DOWN, DPAD_LEFT, DPAD_RIGHT,
                 BTN_BASE3, BTN_BASE4, BTN_THUMB, BTN_THUMB2}

\* 288 is BTN_TRIGGER, a button of the controller the remapper does not track
KeyCodes == TrackedCodes \cup {288}

\* 2 is the value of an autorepeat record
KeyEvents == [type : {EV_KEY}, code : KeyCodes, value : {0, 1, 2}]

\* records of another type, carrying the number of a tracked code
OtherEvents == [type : {EV_REL, EV_SYN, "EV_MSC"}, code : {BTN_BASE3},
                value : {1}]

Press(code) == [type |-> EV_KEY, code |-> code, value |-> 1]

Release(code) == [type |-> EV_KEY, code |-> code, value |-> 0]

InputEvents == KeyEvents \cup OtherEvents

ClassNames == {"feh", "mpv", "streamlink-twitch-gui", "chromium", "dmenu",
               "spotify", "obs", "Sausage.x86_64", "st-256color"}

\* the focused window has no WM_CLASS, one class string, or an instance and
\* a class string that both name a known application
Windows == {{}} \cup {{c} : c \in ClassNames}
           \cup {{"feh", "mpv"}, {"chromium", "spotify"}}

NoEvent == [type |-> "none", code |-> 0, value |-> 0]

NoArg == [fn |-> "none", key |-> "none", m |-> NoMod]

\* the layout switcher is another program: it is not running
NoSwitcher == [layout |-> "none", active |-> 0, focus |-> 0]

\* no menu process has been forked
NoMenu == [status |-> "none", stack |-> <<>>]

\* after state_init: nothing buffered in the input device, no flags from
\* poll, the uinput device created
Created == [input |-> <<>>, revents |-> {}, left |-> 0, uinput |-> "created",
            timeout |-> 0]

----------------------------------------------------------------------------
(* What a step leaves behind *)

\* the records written to the uinput sink
out == SelectSeq(trace, LAMBDA r : r.type \in {EV_KEY, EV_REL, EV_SYN})

\* the show_window_outline calls
outlines ==
    Len(SelectSeq(trace, LAMBDA r : r.type = "fork" /\ r.code = "outline"))

\* the launch_menu calls
menus == Len(SelectSeq(trace, LAMBDA r : r.type = "fork" /\ r.code = "menu"))

\* the handler has run with the effects t
Commit(t) ==
    /\ trace' = t
    /\ k' = Keys(k, t)
    /\ mouse_mode' = Stored(t, "mouse_mode", mouse_mode)
    /\ mouse_movement_distance'
          = Stored(t, "mouse_movement_distance", mouse_movement_distance)
    /\ running' = Stored(t, "running", running)

Held(kk) == kk.up + kk.down + kk.right + kk.left + kk.select + kk.start
            + kk.a + kk.b

----------------------------------------------------------------------------
(* The event loop of main *)

state_init ==
    /\ k = NoKeys
    /\ mouse_mode = 0
    /\ mouse_movement_distance = 0
    /\ running = 1
    /\ trace = <<>>

Init ==
    /\ state_init
    /\ menu = NoMenu
    /\ dev = Created
    /\ sink = {}
    /\ st = NoSwitcher
    /\ win \in Windows
    /\ op = "poll"
    /\ ev = NoEvent
    /\ arg = NoArg
    /\ before = NoKeys

\* poll reports POLLIN and read_event returns the record e
HandleEvent(e) ==
    /\ op = "poll"
    /\ running # 0
    /\ Held(Keys(k, update_key_state(e))) <= MaxHeld
    /\ Commit(handle_event(k, mouse_movement_distance, e, win))
    /\ op' = "event"
    /\ ev' = e
    /\ UNCHANGED <<menu, dev, sink, st, win, arg, before>>

\* poll returns 0
HandleTimeout ==
    /\ op = "poll"
    /\ running # 0
    /\ Stored(handle_timeout(k, mouse_mode, mouse_movement_distance),
              "mouse_movement_distance", mouse_movement_distance) <= MaxDistance
    /\ Commit(handle_timeout(k, mouse_mode, mouse_movement_distance))
    /\ op' = "timeout"
    /\ UNCHANGED <<menu, dev, sink, st, win, ev, arg, before>>

\* the handler returns and the loop comes back to read_event or poll
EndIteration ==
    /\ op \in {"event", "timeout"}
    /\ op' = "poll"
    /\ ev' = NoEvent
    /\ trace' = <<>>
    /\ UNCHANGED <<menu, dev, sink, st, k, mouse_mode, mouse_movement_distance, running,
                   win, arg, before>>

\* the X server moves the input focus to another window while the loop waits
FocusChange(w) ==
    /\ op = "poll"
    /\ w # win
    /\ win' = w
    /\ UNCHANGED <<menu, dev, sink, st, k, mouse_mode, mouse_movement_distance, running,
                   op, ev, arg, before, trace>>

Next ==
    \/ \E e \in InputEvents : HandleEvent(e)
    \/ HandleTimeout
    \/ EndIteration
    \/ \E w \in Windows : FocusChange(w)

Spec == Init /\ [][Next]_vars

----------------------------------------------------------------------------
(* The emission functions on their own: every call the program can make,   *)
(* with every modifier set.                                                *)

\* the key codes the program passes as the key of an emission
TargetKeys == {"KEY_TAB", "KEY_ENTER", "KEY_H", "KEY_L", "KEY_SPACE", "KEY_C",
               "KEY_K", "KEY_UP", "KEY_DOWN", "KEY_LEFT", "KEY_RIGHT",
               "KEY_Z", "KEY_M", "KEY_102ND", "KEY_F5", "KEY_F", "BTN_LEFT",
               "KEY_ESC", "KEY_F9", "KEY_F10", "KEY_F3", "KEY_F1", "KEY_F2",
               "KEY_F8", "KEY_R", "KEY_1", "KEY_2", "KEY_KPLEFTPAREN",
               "KEY_4", "KEY_LEFTBRACE", "KEY_EQUAL", "KEY_W", "KEY_V",
               "KEY_G", "KEY_B", "KEY_A", "KEY_I", "KEY_T"}

DirKeys == [up : {0, 1}, down : {0, 1}, right : {0, 1}, left : {0, 1},
            select : {0}, start : {0}, a : {0}, b : {0}]

EmitInit ==
    /\ menu = NoMenu
    /\ dev = Created
    /\ sink = {}
    /\ st = NoSwitcher
    /\ mouse_mode = 0
    /\ running = 1
    /\ trace = <<>>
    /\ win = {}
    /\ op = "call"
    /\ ev = NoEvent
    /\ before = NoKeys
    /\ \/ /\ arg \in [fn : {"emit_key_press_mod"}, key : TargetKeys,
                      m : ModSets]
          /\ k = NoKeys
          /\ mouse_movement_distance = 0
       \/ /\ arg \in [fn : {"emit_key_press"}, key : TargetKeys, m : {NoMod}]
          /\ k = NoKeys
          /\ mouse_movement_distance = 0
       \/ /\ arg = [fn |-> "emit_mouse_movements", key |-> "none", m |-> NoMod]
          /\ k \in DirKeys
          /\ mouse_movement_distance \in 0..MaxEmitDistance

CallEmitKeyPressMod ==
    /\ op = "call"
    /\ arg.fn = "emit_key_press_mod"
    /\ Commit(emit_key_press_mod(arg.key, arg.m))
    /\ op' = "emit_key_press_mod"
    /\ UNCHANGED <<menu, dev, sink, st, win, ev, arg, before>>

CallEmitKeyPress ==
    /\ op = "call"
    /\ arg.fn = "emit_key_press"
    /\ Commit(emit_key_press(arg.key))
    /\ op' = "emit_key_press"
    /\ UNCHANGED <<menu, dev, sink, st, win, ev, arg, before>>

CallEmitMouseMovements ==
    /\ op = "call"
    /\ arg.fn = "emit_mouse_movements"
    /\ Commit(emit_mouse_movements(k, mouse_movement_distance))
    /\ op' = "emit_mouse_movements"
    /\ UNCHANGED <<menu, dev, sink, st, win, ev, arg, before>>

EmitNext ==
    \/ CallEmitKeyPressMod
    \/ CallEmitKeyPress
    \/ CallEmitMouseMovements

SpecEmit == EmitInit /\ [][EmitNext]_vars

----------------------------------------------------------------------------
(* A press and the release that follows it, from every chord state         *)

AllKeys == [up : {0, 1}, down : {0, 1}, right : {0, 1}, left : {0, 1},
            select : {0, 1}, start : {0, 1}, a : {0, 1}, b : {0, 1}]

ToggleInit ==
    /\ menu = NoMenu
    /\ dev = Created
    /\ sink = {}
    /\ st = NoSwitcher
    /\ k \in AllKeys
    /\ before = k
    /\ \/ mouse_mode = 0 /\ mouse_movement_distance = 0
       \/ mouse_mode = 1 /\ mouse_movement_distance = Floor
    /\ running = 1
    /\ trace = <<>>
    /\ win \in Windows
    /\ op = "call"
    /\ ev = NoEvent
    /\ arg \in [fn : {"toggle"}, key : TrackedCodes, m : {NoMod}]

TogglePress ==
    /\ op = "call"
    /\ arg.fn = "toggle"
    /\ \E e \in {[type |-> EV_KEY, code |-> arg.key, value |-> 1]} :
          /\ ev' = e
          /\ Commit(handle_event(k, mouse_movement_distance, e, win))
    /\ op' = "pressed"
    /\ UNCHANGED <<menu, dev, sink, st, win, arg, before>>

ToggleRelease ==
    /\ op = "pressed"
    /\ \E e \in {[type |-> EV_KEY, code |-> arg.key, value |-> 0]} :
          /\ ev' = e
          /\ Commit(handle_event(k, mouse_movement_distance, e, win))
    /\ op' = "released"
    /\ UNCHANGED <<menu, dev, sink, st, win, arg, before>>

ToggleNext == TogglePress \/ ToggleRelease

SpecToggle == ToggleInit /\ [][ToggleNext]_vars

----------------------------------------------------------------------------
(* Menu subsystem: the menus and what their items do                       *)

\* strncmp(a, b, n) == 0, for strings that end at their terminating NUL
strncmp_equal(a, b, n) ==
    SubSeq(a, 1, IF Len(a) < n THEN Len(a) ELSE n)
        = SubSeq(b, 1, IF Len(b) < n THEN Len(b) ELSE n)

\* sizeof of a string literal
sizeof_lit(s) == Len(s) + 1

\* sizeof(buf) of run_menu
BufSize == 1024

Item(name, callback, opaque) ==
    [name |-> name, callback |-> callback, opaque |-> opaque]

\* struct menu_item ms[] of launch_menu
launch_menu_items ==
    << Item("goto workspace", "select_workspace", "goto_workspace"),
       Item("send to workspace", "select_workspace", "send_to_workspace"),
       Item("toggle status bar", "emit_key_press_callback",
            [k |-> "KEY_B", m |-> [NoMod EXCEPT !.meta = 1]]),
       Item("ESC", "emit_key_press_callback", [k |-> "KEY_ESC", m |-> NoMod]),
       Item("ENTER", "emit_key_press_callback",
            [k |-> "KEY_ENTER", m |-> NoMod]),
       Item("mpv", "launch_mpv_menu", "NULL"),
       Item("chromium", "launch_chromium_menu", "NULL"),
       Item("kill controller", "run_command_callback", "killall controller") >>

\* struct menu_item ms[] of select_workspace: no callback
select_workspace_items ==
    << Item("w", "NULL", "NULL"), Item("v", "NULL", "NULL"),
       Item("m", "NULL", "NULL"), Item("c", "NULL", "NULL"),
       Item("g", "NULL", "NULL"), Item("1", "NULL", "NULL"),
       Item("2", "NULL", "NULL"), Item("3", "NULL", "NULL"),
       Item("4", "NULL", "NULL"), Item("5", "NULL", "NULL"),
       Item("6", "NULL", "NULL") >>

\* struct menu_item ms[] of launch_mpv_menu
launch_mpv_menu_items ==
    << Item("toggle subtitles", "emit_key_press_callback",
            [k |-> "KEY_V", m |-> NoMod]),
       Item("loop current file", "emit_key_press_callback",
            [k |-> "KEY_L", m |-> [NoMod EXCEPT !.shift = 1]]),
       Item("cycle aspect ration", "emit_key_press_callback",
            [k |-> "KEY_A", m |-> [NoMod EXCEPT !.shift = 1]]),
       Item("show stats", "emit_key_press_callback",
            [k |-> "KEY_I", m |-> NoMod]),
       Item("toggle stats", "emit_key_press_callback",
            [k |-> "KEY_I", m |-> [NoMod EXCEPT !.shift = 1]]) >>

\* struct menu_item ms[] of launch_chromium_menu
launch_chromium_menu_items ==
    << Item("refresh", "emit_key_press_callback",
            [k |-> "KEY_F5", m |-> NoMod]),
       Item("spawn", "run_command_callback", "chromium"),
       Item("new tab", "emit_key_press_callback",
            [k |-> "KEY_T", m |-> [NoMod EXCEPT !.ctrl = 1]]) >>

\* the items of the menu that the function fn runs
ItemsOf(fn) ==
    CASE fn = "launch_menu" -> launch_menu_items
      [] fn = "select_workspace" -> select_workspace_items
      [] fn = "launch_mpv_menu" -> launch_mpv_menu_items
      [] fn = "launch_chromium_menu" -> launch_chromium_menu_items

\* the vertical argument of the run_menu call of fn
VerticalOf(fn) == IF fn = "select_workspace" THEN 0 ELSE 1

\* a call of a workspace continuation with the string ws
Call(fn, ws) == <<[type |-> "call", code |-> fn, value |-> ws]>>

warning(text) == <<[type |-> "warning", code |-> text, value |-> 0]>>

\* the if / else-if chain of goto_workspace and send_to_workspace, with the
\* modifiers m
workspace_key(ws, m) ==
    IF strncmp_equal(ws, "1", sizeof_lit("1"))
    THEN emit_key_press_mod("KEY_1", m)
    ELSE IF strncmp_equal(ws, "2", sizeof_lit("2"))
    THEN emit_key_press_mod("KEY_2", m)
    ELSE IF strncmp_equal(ws, "3", sizeof_lit("3"))
    THEN emit_key_press_mod("KEY_KPLEFTPAREN", m)
    ELSE IF strncmp_equal(ws, "4", sizeof_lit("4"))
    THEN emit_key_press_mod("KEY_4", m)
    ELSE IF strncmp_equal(ws, "5", sizeof_lit("5"))
    THEN emit_key_press_mod("KEY_LEFTBRACE", m)
    ELSE IF strncmp_equal(ws, "6", sizeof_lit("6"))
    THEN emit_key_press_mod("KEY_EQUAL", m)
    ELSE IF strncmp_equal(ws, "w", sizeof_lit("w"))
    THEN emit_key_press_mod("KEY_W", m)
    ELSE IF strncmp_equal(ws, "v", sizeof_lit("v"))
    THEN emit_key_press_mod("KEY_V", m)
    ELSE IF strncmp_equal(ws, "m", sizeof_lit("m"))
    THEN emit_key_press_mod("KEY_M", m)
    ELSE IF strncmp_equal(ws, "c", sizeof_lit("c"))
    THEN emit_key_press_mod("KEY_C", m)
    ELSE IF strncmp_equal(ws, "g", sizeof_lit("g"))
    THEN emit_key_press_mod("KEY_G", m)
    ELSE warning("goto unmapped workspace")

goto_workspace(ws) ==
    Call("goto_workspace", ws)
    \o workspace_key(ws, [NoMod EXCEPT !.meta = 1])

send_to_workspace(ws) ==
    Call("send_to_workspace", ws)
    \o workspace_key(ws, [NoMod EXCEPT !.shift = 1, !.meta = 1])

\* ((void (*)(struct state*, const char*))m->opaque)(s, ws)
continuation(opaque, ws) ==
    IF opaque = "goto_workspace" THEN goto_workspace(ws)
    ELSE send_to_workspace(ws)

emit_key_press_callback(m) == emit_key_press_mod(m.opaque.k, m.opaque.m)

run_command_callback(m) ==
    <<[type |-> "system", code |-> m.opaque, value |-> 0]>>

----------------------------------------------------------------------------
(* Menu subsystem: the detached process that launch_menu forks. trace      *)
(* holds everything the process has done since the fork.                   *)

\* what the chooser can print before it closes its output: the line of an
\* item, nothing, a line cut short, a typed line that no item equals, an
\* empty line, two lines
ChooserOutputs(fn) ==
    {ItemsOf(fn)[i].name \o "\n" : i \in 1..Len(ItemsOf(fn))}
    \cup {""}
    \cup (CASE fn = "launch_menu" -> {"mpv", "mpv2\n", "ESCAPE\n", "\n"}
            [] fn = "select_workspace" -> {"w", "10\n", "x\n", "w\nv\n"}
            [] fn = "launch_mpv_menu" -> {"show\n"}
            [] fn = "launch_chromium_menu" ->
                   {"refresh", "refresh2\n", "refres\n"})

\* the locals of one run_menu call, and the function that made it; todo is
\* what the callback it has called has still to do
Frame(fn, item) ==
    [fn |-> fn, opaque |-> item, pc |-> "fork", said |-> "", rest |-> "",
     buf |-> "", choice |-> 0, short |-> 0, todo |-> <<>>]

Top == menu.stack[Len(menu.stack)]

SetTop(f) == [menu EXCEPT !.stack[Len(menu.stack)] = f]

Chooser(what, value) == <<[type |-> "chooser", code |-> what, value |-> value]>>

\* the positions of the newlines of the string s
Newlines(s) == {i \in 1..Len(s) : SubSeq(s, i, i) = "\n"}

\* first_match with the comparison bounded by the length of the item's name
first_match_name_length(ms, buf) ==
    LET hits == {i \in 1..Len(ms) :
                    strncmp_equal(ms[i].name, buf, Len(ms[i].name))}
    IN  IF hits = {} THEN 0 ELSE CHOOSE i \in hits : \A j \in hits : i <= j

\* the first item whose name compares equal to the line in buf, 0 if none
first_match(ms, buf) ==
    LET hits == {i \in 1..Len(ms) : strncmp_equal(ms[i].name, buf, BufSize)}
    IN  IF hits = {} THEN 0 ELSE CHOOSE i \in hits : \A j \in hits : i <= j

\* the child of launch_menu has forked again and detached
MenuInit ==
    /\ k = [NoKeys EXCEPT !.select = 1, !.start = 1]
    /\ mouse_mode = 0
    /\ mouse_movement_distance = 0
    /\ running = 1
    /\ win \in {{}, {"mpv"}, {"chromium"}}
    /\ op = "menu"
    /\ ev = NoEvent
    /\ arg = NoArg
    /\ before = NoKeys
    /\ trace = <<>>
    /\ menu = [status |-> "running", stack |-> <<Frame("launch_menu", "NULL")>>]
    /\ dev = Created
    /\ sink = {}
    /\ st = NoSwitcher

MenuRunning == menu.status = "running"

MenuFrame ==
    UNCHANGED <<sink, st, k, mouse_mode, mouse_movement_distance, running, win, op, ev,
                arg, before, dev>>

\* a uinput device that takes records after it was destroyed
Sunk_after_destroy(t) == t

\* the effects t of a callback in the menu process: once the uinput device is
\* destroyed the write of emit_event fails and its CHECK ends the process
Sunk(t) ==
    IF dev.uinput = "created" \/ Writes(t) = {} THEN t
    ELSE SubSeq(t, 1, (CHOOSE j \in Writes(t) : \A q \in Writes(t) : j <= q) - 1)
         \o failwith("CHECK")

\* pipe, pipe, fork: the chooser runs
run_menu_fork ==
    /\ MenuRunning
    /\ Top.pc = "fork"
    /\ trace' = trace \o Chooser("fork", VerticalOf(Top.fn))
    /\ menu' = SetTop([Top EXCEPT !.pc = "write"])
    /\ MenuFrame

\* the for loop that writes the names, each followed by a newline; w is
\* the item whose write returns fewer bytes than the name has, 0 when every
\* write is complete
run_menu_write(w) ==
    /\ MenuRunning
    /\ Top.pc = "write"
    /\ LET names == [i \in 1..Len(ItemsOf(Top.fn)) |->
                        [type |-> "chooser", code |-> "write",
                         value |-> ItemsOf(Top.fn)[i].name \o "\n"]]
       IN  IF w = 0
           THEN /\ trace' = trace \o names
                /\ menu' = SetTop([Top EXCEPT !.pc = "close"])
           ELSE /\ trace' = trace \o SubSeq(names, 1, w - 1)
                             \o Chooser("short write", ItemsOf(Top.fn)[w].name)
                             \o failwith("TODO partial write")
                /\ menu' = [menu EXCEPT !.status = "aborted"]
    /\ MenuFrame

\* close(i[1]); the chooser has its items and the user answers with said
run_menu_close(said) ==
    /\ MenuRunning
    /\ Top.pc = "close"
    /\ trace' = trace \o Chooser("close", "stdin")
    /\ menu' = SetTop([Top EXCEPT !.pc = "read", !.said = said, !.rest = said])
    /\ MenuFrame

\* one turn of the while loop: read returns the next n bytes of the output
\* (0 at the end of the stream), and the bytes are searched for a newline
run_menu_read(n) ==
    /\ MenuRunning
    /\ Top.pc = "read"
    /\ IF Len(Top.buf) >= BufSize
       THEN /\ n = 0
            /\ menu' = SetTop([Top EXCEPT !.pc = "newline"])
       ELSE /\ n <= BufSize - Len(Top.buf)
            /\ IF Top.rest = "" THEN n = 0 ELSE n > 0
            /\ n < Len(Top.rest) => Top.short < MaxShortReads
            /\ LET chunk == SubSeq(Top.rest, 1, n)
                   rest == SubSeq(Top.rest, n + 1, Len(Top.rest))
                   nl == Newlines(chunk)
               IN  menu' = SetTop(
                       IF n = 0
                       THEN [Top EXCEPT !.pc = "done"]
                       ELSE IF nl # {}
                       THEN LET at == CHOOSE i \in nl : \A j \in nl : i <= j
                            IN  [Top EXCEPT !.pc = "newline", !.rest = rest,
                                     !.buf = Top.buf \o SubSeq(chunk, 1, at - 1)]
                       ELSE [Top EXCEPT !.rest = rest,
                                        !.buf = Top.buf \o chunk,
                                        !.short = IF n < Len(Top.rest)
                                                  THEN @ + 1 ELSE @])
    /\ trace' = trace \o Chooser("read", n)
    /\ MenuFrame

\* the functions that run a menu of their own
MenuFunctions == {"select_workspace", "launch_mpv_menu", "launch_chromium_menu"}

\* the for loop after the label newline: the first item whose name compares
\* equal to the line becomes the choice and its callback, if any, is called
run_menu_newline ==
    /\ MenuRunning
    /\ Top.pc = "newline"
    /\ LET ms == ItemsOf(Top.fn)
           c == first_match(ms, Top.buf)
       IN  IF c = 0
           THEN /\ menu' = SetTop([Top EXCEPT !.pc = "done"])
                /\ trace' = trace
           ELSE IF ms[c].callback \in MenuFunctions
           THEN /\ menu' = [menu EXCEPT !.stack =
                              Append(SetTop([Top EXCEPT !.pc = "callback",
                                                        !.choice = c]).stack,
                                     Frame(ms[c].callback, ms[c].opaque))]
                /\ trace' = trace
           ELSE LET t == Sunk(IF ms[c].callback = "emit_key_press_callback"
                              THEN emit_key_press_callback(ms[c])
                              ELSE IF ms[c].callback = "run_command_callback"
                              THEN run_command_callback(ms[c])
                              ELSE <<>>)
                IN  /\ menu' = IF Aborts(t)
                               THEN [SetTop([Top EXCEPT !.choice = c])
                                     EXCEPT !.status = "aborted"]
                               ELSE SetTop([Top EXCEPT !.pc = "done",
                                                       !.choice = c])
                    /\ trace' = trace \o t
    /\ MenuFrame

\* the label done without the waitpid
run_menu_done_no_wait ==
    Chooser("close", "stdout")

\* the label done: waitpid, close(o[0]), return choice
run_menu_done ==
    Chooser("waitpid", 0) \o Chooser("close", "stdout")

Caller == menu.stack[Len(menu.stack) - 1]

\* the stack without its top frame, the caller being after its callback
Returned ==
    [menu EXCEPT !.stack =
        [i \in 1..(Len(menu.stack) - 1) |->
            IF i = Len(menu.stack) - 1
            THEN [Caller EXCEPT !.pc = "done"]
            ELSE menu.stack[i]]]

\* a launch_menu without its exit(0): the menu process returns to the
\* handler that called launch_menu, and from there to the loop of main
launch_menu_returns ==
    /\ MenuRunning
    /\ Top.pc = "done"
    /\ Top.fn = "launch_menu"
    /\ trace' = trace \o run_menu_done
    /\ menu' = [status |-> "returned", stack |-> <<>>]
    /\ MenuFrame

\* run_menu returns to launch_menu, which exits
launch_menu_exit ==
    /\ MenuRunning
    /\ Top.pc = "done"
    /\ Top.fn = "launch_menu"
    /\ trace' = trace \o run_menu_done
    /\ menu' = [status |-> "exited", stack |-> <<[Top EXCEPT !.pc = "exit"]>>]
    /\ MenuFrame

\* run_menu returns to launch_mpv_menu or launch_chromium_menu, which returns
submenu_return ==
    /\ MenuRunning
    /\ Top.pc = "done"
    /\ Top.fn \in {"launch_mpv_menu", "launch_chromium_menu"}
    /\ trace' = trace \o run_menu_done
    /\ menu' = Returned
    /\ MenuFrame

\* select_workspace passing the name of the item it was called for
select_workspace_outer_name ==
    /\ MenuRunning
    /\ Top.pc = "done"
    /\ Top.fn = "select_workspace"
    /\ Top.choice # 0
    /\ LET t == Sunk(continuation(Top.opaque,
                                  ItemsOf(Caller.fn)[Caller.choice].name))
       IN  /\ trace' = trace \o run_menu_done \o t
           /\ menu' = IF Aborts(t) THEN [menu EXCEPT !.status = "aborted"]
                      ELSE Returned
    /\ MenuFrame

\* run_menu returns an item to select_workspace, which calls m->opaque with
\* the name of the item
select_workspace ==
    /\ MenuRunning
    /\ Top.pc = "done"
    /\ Top.fn = "select_workspace"
    /\ Top.choice # 0
    /\ LET t == Sunk(continuation(Top.opaque,
                                  ItemsOf(Top.fn)[Top.choice].name))
       IN  /\ trace' = trace \o run_menu_done \o t
           /\ menu' = IF Aborts(t) THEN [menu EXCEPT !.status = "aborted"]
                      ELSE Returned
    /\ MenuFrame

\* what a read through a null pointer to a string can yield when it does not
\* fault
WildNames == {"", "w", "?"}

\* run_menu returns NULL to select_workspace, which reads choice->name: the
\* process gets SIGSEGV, or the call is made with whatever the read yields
select_workspace_null(outcome) ==
    /\ MenuRunning
    /\ Top.pc = "done"
    /\ Top.fn = "select_workspace"
    /\ Top.choice = 0
    /\ IF outcome = "SIGSEGV"
       THEN /\ trace' = trace \o run_menu_done
                        \o <<[type |-> "signal", code |-> "SIGSEGV", value |-> 0]>>
            /\ menu' = [SetTop([Top EXCEPT !.pc = "returned"])
                          EXCEPT !.status = "killed"]
       ELSE LET t == Sunk(continuation(Top.opaque, outcome))
            IN  /\ trace' = trace \o run_menu_done \o t
                /\ menu' = IF Aborts(t) THEN [menu EXCEPT !.status = "aborted"]
                           ELSE Returned
    /\ MenuFrame

MenuNext ==
    \/ run_menu_fork
    \/ \E w \in 0..Len(ItemsOf(Top.fn)) : run_menu_write(w)
    \/ \E said \in ChooserOutputs(Top.fn) : run_menu_close(said)
    \/ \E n \in 0..Len(Top.rest) : run_menu_read(n)
    \/ run_menu_newline
    \/ launch_menu_exit
    \/ submenu_return
    \/ select_workspace
    \/ \E outcome \in {"SIGSEGV"} \cup WildNames : select_workspace_null(outcome)

SpecMenu == MenuInit /\ [][MenuNext]_vars

----------------------------------------------------------------------------
(* The handshake of state_init with /dev/uinput *)

\* ioctl(s->uinput_fd, UI_SET_EVBIT, ...)
UI_SET_EVBIT == {EV_KEY, EV_SYN, EV_REL}

\* ioctl(s->uinput_fd, UI_SET_RELBIT, ...)
UI_SET_RELBIT == {"REL_X", "REL_Y"}

\* ioctl(s->uinput_fd, UI_SET_KEYBIT, ...)
UI_SET_KEYBIT ==
    {"BTN_LEFT",
     "KEY_F1", "KEY_F2", "KEY_F3", "KEY_F4", "KEY_F5", "KEY_F6", "KEY_F7",
     "KEY_F8", "KEY_F9", "KEY_F10", "KEY_F11", "KEY_F12",
     "KEY_1", "KEY_2",
     "KEY_B", "KEY_C", "KEY_F", "KEY_G", "KEY_H", "KEY_I", "KEY_K", "KEY_L",
     "KEY_M", "KEY_Q", "KEY_R", "KEY_S", "KEY_T", "KEY_V", "KEY_W", "KEY_Z",
     "KEY_SLASH", "KEY_KPASTERISK", "KEY_KPLEFTPAREN", "KEY_DOLLAR",
     "KEY_LEFTBRACE", "KEY_EQUAL", "KEY_102ND",
     "KEY_UP", "KEY_DOWN", "KEY_LEFT", "KEY_RIGHT",
     "KEY_ESC", "KEY_ENTER", "KEY_SPACE", "KEY_TAB",
     "KEY_LEFTALT", "KEY_RIGHTALT", "KEY_LEFTSHIFT", "KEY_LEFTCTRL",
     "KEY_LEFTMETA", "KEY_RIGHTMETA"}

----------------------------------------------------------------------------
(* The process of main step by step: state_init, the poll loop with the    *)
(* flags of revents and the drain of the input device, state_deinit, and   *)
(* beside it the menu process that launch_menu detaches. Here trace holds  *)
(* the effects of the last step of main, followed by what the menu process *)
(* has done since.                                                         *)

\* a poll that always waits the long timeout
poll_timeout_always_long(mm) == LongTimeout

\* int timeout = s.mouse_mode ? 10 : 10000
poll_timeout(mm) == IF mm # 0 THEN ShortTimeout ELSE LongTimeout

POLLIN == "POLLIN"
POLLERR == "POLLERR"
POLLHUP == "POLLHUP"

\* launch_menu whose parent waits until the menu process has exited
launch_menu_child_waited(m) ==
    [status |-> "exited",
     stack |-> <<[Frame("launch_menu", "NULL") EXCEPT !.pc = "exit"]>>]

\* the menu process after launch_menu: one menu process is followed, a
\* launch while it runs starts another that is not
launch_menu_child(m) ==
    IF m.status = "running" THEN m
    ELSE [status |-> "running", stack |-> <<Frame("launch_menu", "NULL")>>]

\* the events the device sends to the loop: presses of select, start, left
LoopEvents == {Press(BTN_BASE3), Press(BTN_BASE4), Press(DPAD_LEFT)}

Batches == UNION {[1..n -> LoopEvents] : n \in 1..MaxBuffered}

LoopWindows == {NoClass, {"dmenu"}}

\* what the chooser prints in this specification: nothing, or the item ESC
LoopAnswers == {"", "ESC\n"}

LoopInit ==
    /\ k = NoKeys
    /\ mouse_mode = 0
    /\ mouse_movement_distance = 0
    /\ running = 0
    /\ win \in LoopWindows
    /\ op = "main"
    /\ ev = NoEvent
    /\ arg = NoArg
    /\ before = NoKeys
    /\ trace = <<>>
    /\ menu = NoMenu
    /\ dev = [input |-> <<>>, revents |-> {}, left |-> 0, uinput |-> "closed",
              timeout |-> 0]
    /\ sink = {}
    /\ st = NoSwitcher

\* state_init: the handshake ends with UI_DEV_CREATE, or a CHECK fails
StateInit(r) ==
    /\ op = "main"
    /\ IF r = "ok"
       THEN /\ k' = NoKeys
            /\ mouse_mode' = 0
            /\ mouse_movement_distance' = 0
            /\ running' = 1
            /\ trace' = <<>>
            /\ dev' = Created
            /\ op' = "poll"
       ELSE /\ trace' = failwith("CHECK")
            /\ op' = "aborted"
            /\ UNCHANGED <<k, mouse_mode, mouse_movement_distance, running, dev>>
    /\ UNCHANGED <<sink, st, win, ev, arg, before, menu>>

\* poll returns 0 and handle_timeout runs
PollTimeout ==
    /\ op = "poll"
    /\ running # 0
    /\ dev.input = <<>>
    /\ Stored(handle_timeout(k, mouse_mode, mouse_movement_distance),
              "mouse_movement_distance", mouse_movement_distance) <= MaxDistance
    /\ LET t == handle_timeout(k, mouse_mode, mouse_movement_distance)
       IN  \E i \in 0..Cardinality(Writes(t)) :
               /\ Commit(Written(t, i))
               /\ op' = IF i = 0 THEN "timeout" ELSE "aborted"
    /\ dev' = [dev EXCEPT !.timeout = poll_timeout(mouse_mode)]
    /\ UNCHANGED <<menu, sink, st, win, ev, arg, before>>

\* poll returns -1
PollFails ==
    /\ op = "poll"
    /\ running # 0
    /\ trace' = failwith("CHECK")
    /\ op' = "aborted"
    /\ dev' = [dev EXCEPT !.timeout = poll_timeout(mouse_mode)]
    /\ UNCHANGED <<menu, sink, st, k, mouse_mode, mouse_movement_distance, running,
                   win, ev, arg, before>>

\* poll returns 1 with the flags revents; with POLLIN the events of batch
\* are buffered in the device
PollEvents(revents, batch) ==
    /\ op = "poll"
    /\ running # 0
    /\ revents # {}
    /\ (POLLIN \in revents) = (batch # <<>>)
    /\ dev' = [dev EXCEPT !.input = batch, !.revents = revents,
                          !.left = Len(batch),
                          !.timeout = poll_timeout(mouse_mode)]
    /\ op' = "revents"
    /\ trace' = <<>>
    /\ UNCHANGED <<menu, sink, st, k, mouse_mode, mouse_movement_distance, running, win,
                   ev, arg, before>>

\* if(fds[0].revents & POLLERR) { ... }
PollErr ==
    /\ op = "revents"
    /\ IF POLLERR \in dev.revents
       THEN IF POLLHUP \in dev.revents
            THEN /\ Commit(warning("input device disconnected") \o Store("running", 0))
                 /\ dev' = [dev EXCEPT !.revents = @ \ {POLLHUP, POLLERR}]
                 /\ op' = "pollin"
            ELSE /\ Commit(failwith("unhandled poll error condition"))
                 /\ dev' = dev
                 /\ op' = "aborted"
       ELSE /\ Commit(<<>>)
            /\ dev' = dev
            /\ op' = "pollin"
    /\ UNCHANGED <<menu, sink, st, win, ev, arg, before>>

\* one turn of while(read_event(&s, &e)) handle_event(&s, &e): the read
\* returns a whole record, fewer bytes, or an error
ReadEvent(r) ==
    /\ op = "pollin"
    /\ POLLIN \in dev.revents
    /\ dev.input # <<>>
    /\ IF r = "full"
       THEN /\ \E e \in {Head(dev.input)} :
                  LET t == handle_event(k, mouse_movement_distance, e, win)
                  IN  \E i \in 0..Cardinality(Writes(t)) :
                          /\ ev' = e
                          /\ Commit(Written(t, i))
                          /\ op' = IF i = 0 THEN "pollin" ELSE "aborted"
                          /\ menu' = IF menus' > 0 THEN launch_menu_child(menu)
                                     ELSE menu
            /\ dev' = [dev EXCEPT !.input = Tail(@),
                                  !.left = IF @ > 0 THEN @ - 1 ELSE 0]
       ELSE /\ trace' = failwith(IF r = "short" THEN "unexpected partial read"
                                 ELSE "CHECK")
            /\ op' = "aborted"
            /\ UNCHANGED <<k, mouse_mode, mouse_movement_distance, running, ev,
                           menu, dev>>
    /\ UNCHANGED <<sink, st, win, arg, before>>

\* a read_event that can return 0 while events are buffered
ReadWouldBlock_early ==
    /\ op = "pollin"
    /\ POLLIN \in dev.revents
    /\ dev' = [dev EXCEPT !.revents = @ \ {POLLIN}]
    /\ op' = "unhandled"
    /\ UNCHANGED <<menu, sink, st, k, mouse_mode, mouse_movement_distance, running, win,
                   ev, arg, before, trace>>

\* read_event returns 0: the read would block
ReadWouldBlock ==
    /\ op = "pollin"
    /\ POLLIN \in dev.revents
    /\ dev.input = <<>>
    /\ dev' = [dev EXCEPT !.revents = @ \ {POLLIN}]
    /\ op' = "unhandled"
    /\ UNCHANGED <<menu, sink, st, k, mouse_mode, mouse_movement_distance, running, win,
                   ev, arg, before, trace>>

\* if(fds[0].revents & POLLIN) is false
NoPollIn ==
    /\ op = "pollin"
    /\ POLLIN \notin dev.revents
    /\ op' = "unhandled"
    /\ UNCHANGED <<menu, dev, sink, st, k, mouse_mode, mouse_movement_distance, running,
                   win, ev, arg, before, trace>>

\* a loop that goes on to the next iteration whatever flags are left
Unhandled_goes_on ==
    /\ op = "unhandled"
    /\ trace' = <<>>
    /\ op' = "poll"
    /\ ev' = NoEvent
    /\ UNCHANGED <<menu, dev, sink, st, k, mouse_mode, mouse_movement_distance,
                   running, win, arg, before>>

\* the for loop at the end of the body: a flag that is still set is fatal
Unhandled ==
    /\ op = "unhandled"
    /\ IF dev.revents # {}
       THEN /\ trace' = failwith("unhandled events")
            /\ op' = "aborted"
            /\ ev' = ev
       ELSE /\ trace' = <<>>
            /\ op' = "poll"
            /\ ev' = NoEvent
    /\ UNCHANGED <<menu, dev, sink, st, k, mouse_mode, mouse_movement_distance, running,
                   win, arg, before>>

\* the loop has ended; state_deinit closes the display and the input device
StateDeinit ==
    /\ op = "poll"
    /\ running = 0
    /\ op' = "deinit"
    /\ trace' = <<[type |-> "close", code |-> "dpy", value |-> 0],
                  [type |-> "close", code |-> "input_fd", value |-> 0]>>
    /\ UNCHANGED <<menu, dev, sink, st, k, mouse_mode, mouse_movement_distance, running,
                   win, ev, arg, before>>

\* state_deinit destroys the uinput device and closes it; main returns 0
StateDeinitDestroy ==
    /\ op = "deinit"
    /\ op' = "exited"
    /\ trace' = <<[type |-> "ioctl", code |-> "UI_DEV_DESTROY", value |-> 0],
                  [type |-> "close", code |-> "uinput_fd", value |-> 0]>>
    /\ dev' = [dev EXCEPT !.uinput = "closed"]
    /\ UNCHANGED <<menu, sink, st, k, mouse_mode, mouse_movement_distance, running, win,
                   ev, arg, before>>

LoopMain ==
    \/ \E r \in {"ok", "fail"} : StateInit(r)
    \/ PollTimeout
    \/ PollFails
    \/ \E revents \in SUBSET {POLLIN, POLLERR, POLLHUP} :
          \E batch \in Batches \cup {<<>>} : PollEvents(revents, batch)
    \/ PollErr
    \/ \E r \in {"full", "short", "error"} : ReadEvent(r)
    \/ ReadWouldBlock
    \/ NoPollIn
    \/ Unhandled
    \/ EndIteration
    \/ StateDeinit
    \/ StateDeinitDestroy

LoopMenu ==
    /\ MenuRunning
    /\ \/ run_menu_fork
       \/ \E w \in 0..Len(ItemsOf(Top.fn)) : run_menu_write(w)
       \/ \E said \in LoopAnswers : run_menu_close(said)
       \/ \E n \in {Len(Top.rest)} : run_menu_read(n)
       \/ run_menu_newline
       \/ launch_menu_exit

LoopNext == LoopMain \/ LoopMenu

SpecLoop == LoopInit /\ [][LoopNext]_vars

----------------------------------------------------------------------------
(* Vocabulary of the properties *)

KeyRec(code, value) == [type |-> EV_KEY, code |-> code, value |-> value]

RelRec(code, value) == [type |-> EV_REL, code |-> code, value |-> value]

SynRec == [type |-> EV_SYN, code |-> SYN_REPORT, value |-> 0]

ModNames == {"shift", "meta", "alt", "ctrl", "super"}

ModKeyOf == [shift |-> "KEY_LEFTSHIFT", meta |-> "KEY_LEFTMETA",
             alt |-> "KEY_LEFTALT", ctrl |-> "KEY_LEFTCTRL",
             super |-> "KEY_RIGHTMETA"]

Requested(m) == {n \in ModNames : m[n] # 0}

Positions(seq, r) == {i \in 1..Len(seq) : seq[i] = r}

Pos(seq, r) == CHOOSE i \in Positions(seq, r) : TRUE

Once(seq, r) == Cardinality(Positions(seq, r)) = 1

Never(seq, r) == Positions(seq, r) = {}

Reverse(seq) == [i \in 1..Len(seq) |-> seq[Len(seq) + 1 - i]]

\* the key records of the modifiers of m, in the given order of names
ModRecs(order, m, value) ==
    LET wanted == SelectSeq(order, LAMBDA n : m[n] # 0)
    IN  [i \in 1..Len(wanted) |-> KeyRec(ModKeyOf[wanted[i]], value)]

PressOrder == <<"shift", "meta", "alt", "super", "ctrl">>

----------------------------------------------------------------------------
(* Event synthesizer: properties *)

\* C1: emit_key_press_mod with a non-empty modifier set writes a balanced
\* sequence: every requested modifier is pressed once and released once (and
\* no other modifier appears), releases are in the reverse order of the
\* presses, and the key is pressed once and released once, after every
\* modifier press and before every modifier release.
C1_Balanced ==
    (op = "emit_key_press_mod" /\ arg.m # NoMod) =>
        /\ \A n \in Requested(arg.m) :
              /\ Once(out, KeyRec(ModKeyOf[n], 1))
              /\ Once(out, KeyRec(ModKeyOf[n], 0))
        /\ \A n \in ModNames \ Requested(arg.m) :
              /\ Never(out, KeyRec(ModKeyOf[n], 1))
              /\ Never(out, KeyRec(ModKeyOf[n], 0))
        /\ Once(out, KeyRec(arg.key, 1))
        /\ Once(out, KeyRec(arg.key, 0))
        /\ Pos(out, KeyRec(arg.key, 1)) < Pos(out, KeyRec(arg.key, 0))
        /\ \A n \in Requested(arg.m) :
              /\ Pos(out, KeyRec(ModKeyOf[n], 1)) < Pos(out, KeyRec(arg.key, 1))
              /\ Pos(out, KeyRec(arg.key, 0)) < Pos(out, KeyRec(ModKeyOf[n], 0))
        /\ \A a, b \in Requested(arg.m) :
              Pos(out, KeyRec(ModKeyOf[a], 1)) < Pos(out, KeyRec(ModKeyOf[b], 1))
              => Pos(out, KeyRec(ModKeyOf[b], 0)) < Pos(out, KeyRec(ModKeyOf[a], 0))

C1_Witness ==
    /\ op = "emit_key_press_mod"
    /\ Requested(arg.m) = ModNames
    /\ Len(out) = 16

\* C2 as stated: the modifiers are pressed in the order shift, meta, alt,
\* super, ctrl and released in the reverse order, and every key record (each
\* modifier press, the key press, the key release, each modifier release) is
\* directly followed by a sync record.
C2_SyncAfterEachChange ==
    (op = "emit_key_press_mod" /\ arg.m # NoMod) =>
        /\ SelectSeq(out, LAMBDA r : r.type = EV_KEY)
              = ModRecs(PressOrder, arg.m, 1)
                \o <<KeyRec(arg.key, 1), KeyRec(arg.key, 0)>>
                \o ModRecs(Reverse(PressOrder), arg.m, 0)
        /\ \A i \in 1..Len(out) :
              out[i].type = EV_KEY => (i < Len(out) /\ out[i + 1] = SynRec)

\* C2 amended: the modifiers are pressed in the order shift, meta, alt,
\* super, ctrl and released in the reverse order, and one sync record is
\* written after the modifier presses as a group, after the key press, after
\* the key release and after the modifier releases as a group.
C2_SyncAfterEachGroup ==
    (op = "emit_key_press_mod" /\ arg.m # NoMod) =>
        out = ModRecs(PressOrder, arg.m, 1)
              \o <<SynRec, KeyRec(arg.key, 1), SynRec, KeyRec(arg.key, 0), SynRec>>
              \o ModRecs(Reverse(PressOrder), arg.m, 0)
              \o <<SynRec>>

C2_Witness ==
    /\ op = "emit_key_press_mod"
    /\ arg.m = [NoMod EXCEPT !.super = 1, !.ctrl = 1, !.shift = 1]
    /\ out[1] = KeyRec("KEY_LEFTSHIFT", 1)
    /\ out[2] = KeyRec("KEY_RIGHTMETA", 1)
    /\ out[3] = KeyRec("KEY_LEFTCTRL", 1)
    /\ out[4] = SynRec

\* C3 as stated: emit_key_press writes exactly press, sync, release, sync.
C3_FourRecords ==
    op = "emit_key_press" =>
        out = <<KeyRec(arg.key, 1), SynRec, KeyRec(arg.key, 0), SynRec>>

\* C3 amended: emit_key_press writes exactly six records: a sync, then press,
\* sync, release, sync, then one more sync.
C3_SixRecords ==
    op = "emit_key_press" =>
        out = <<SynRec, KeyRec(arg.key, 1), SynRec, KeyRec(arg.key, 0), SynRec,
                SynRec>>

C3_Witness ==
    /\ op = "emit_key_press"
    /\ arg.key = "KEY_SPACE"
    /\ Len(out) = 6

\* C4: emit_mouse_movements writes nothing when both deltas are zero, the
\* one axis record and a sync when exactly one delta is non-zero, and REL_X,
\* REL_Y and a sync when both are non-zero.
C4_MouseMovements ==
    op = "emit_mouse_movements" =>
        LET d == mouse_movement_distance \div 10
            dx == d * (k.right - k.left)
            dy == d * (k.down - k.up)
        IN  /\ (dx = 0 /\ dy = 0) => out = <<>>
            /\ (dx # 0 /\ dy = 0) => out = <<RelRec("REL_X", dx), SynRec>>
            /\ (dx = 0 /\ dy # 0) => out = <<RelRec("REL_Y", dy), SynRec>>
            /\ (dx # 0 /\ dy # 0)
                  => out = <<RelRec("REL_X", dx), RelRec("REL_Y", dy), SynRec>>

C4_Witness ==
    /\ op = "emit_mouse_movements"
    /\ mouse_movement_distance = 20
    /\ k.left = 1 /\ k.right = 1 /\ k.up = 1 /\ k.down = 0
    /\ out = <<RelRec("REL_Y", -2), SynRec>>

----------------------------------------------------------------------------
(* Chord state and mouse emulation: properties *)

FlagOf(code) ==
    CASE code = DPAD_UP -> "up"
      [] code = DPAD_DOWN -> "down"
      [] code = DPAD_RIGHT -> "right"
      [] code = DPAD_LEFT -> "left"
      [] code = BTN_BASE3 -> "select"
      [] code = BTN_BASE4 -> "start"
      [] code = BTN_THUMB -> "a"
      [] code = BTN_THUMB2 -> "b"

AnyDir(kk) == kk.up # 0 \/ kk.down # 0 \/ kk.left # 0 \/ kk.right # 0

\* the records of one relative-motion burst of magnitude d
Burst(kk, d) ==
    LET dx == d * (kk.right - kk.left)
        dy == d * (kk.down - kk.up)
    IN  (IF dx # 0 THEN <<RelRec("REL_X", dx)>> ELSE <<>>)
        \o (IF dy # 0 THEN <<RelRec("REL_Y", dy)>> ELSE <<>>)
        \o (IF dx # 0 \/ dy # 0 THEN <<SynRec>> ELSE <<>>)

\* C5: a press of a tracked code followed by its release leaves the flag of
\* that code false and every other flag as it was before the press.
C5_Toggle ==
    op = "released" =>
        /\ k[FlagOf(arg.key)] = 0
        /\ \A f \in FlagNames \ {FlagOf(arg.key)} : k[f] = before[f]

C5_Witness ==
    /\ op = "released"
    /\ arg.key = BTN_BASE3
    /\ before.select = 1
    /\ before.b = 1
    /\ k.b = 1
    /\ k.select = 0

IsUntracked(e) ==
    e.type = EV_KEY /\ (e.code \notin TrackedCodes \/ e.value \notin {0, 1})

\* C6 as stated: a KEY event with an untracked code, or with a value other
\* than 0 and 1, leaves the eight flags, mouse_mode and mouse_distance
\* unchanged.
C6_NothingMutated ==
    [][(op' = "event" /\ IsUntracked(ev')) =>
          /\ k' = k
          /\ mouse_mode' = mouse_mode
          /\ mouse_movement_distance' = mouse_movement_distance]_vars

\* C6 amended: a KEY event with an untracked code, or with a value other
\* than 0 and 1, leaves the eight flags and mouse_distance unchanged
\* (mouse_mode is still set by the rule of the focused application).
C6_FlagsAndDistanceKept ==
    [][(op' = "event" /\ IsUntracked(ev')) =>
          /\ k' = k
          /\ mouse_movement_distance' = mouse_movement_distance]_vars

C6_Witness ==
    /\ op = "event"
    /\ ev = [type |-> EV_KEY, code |-> 288, value |-> 1]
    /\ "chromium" \in win
    /\ mouse_mode = 1
    /\ out = <<RelRec("REL_X", -1), SynRec>>

\* C7: an event whose type is not KEY writes nothing to the sink, forks no
\* outline and no menu and leaves the flags, mouse_mode, mouse_distance and
\* running unchanged.
C7_NonKeyIgnored ==
    [][(op' = "event" /\ ev'.type # EV_KEY) =>
          /\ out' = <<>>
          /\ outlines' = 0
          /\ menus' = 0
          /\ k' = k
          /\ mouse_mode' = mouse_mode
          /\ mouse_movement_distance' = mouse_movement_distance
          /\ running' = running]_vars

C7_Witness ==
    /\ op = "event"
    /\ ev = [type |-> EV_REL, code |-> BTN_BASE3, value |-> 1]
    /\ "chromium" \in win
    /\ mouse_mode = 1
    /\ k.left = 1
    /\ mouse_movement_distance = Floor

\* C8: on a timeout tick the distance does not decrease while a directional
\* flag is held, and it is the floor after the tick at which no directional
\* flag is held.
C8_TickDistance ==
    [][op' = "timeout" =>
          IF AnyDir(k)
          THEN mouse_movement_distance' >= mouse_movement_distance
          ELSE mouse_movement_distance' = Floor]_vars

\* C9: every step that takes mouse_mode from true to false sets the distance
\* to the floor, the distance is reset by no other step, and otherwise it
\* only changes by growing by 1 on a timeout tick throughout which
\* mouse_mode is true.
C9_ResetExactlyOnExit ==
    [][/\ (mouse_mode # 0 /\ mouse_mode' = 0)
             => mouse_movement_distance' = Floor
       /\ mouse_movement_distance' # mouse_movement_distance
             => \/ /\ mouse_mode # 0 /\ mouse_mode' = 0
                   /\ mouse_movement_distance' = Floor
                \/ /\ op' = "timeout"
                   /\ mouse_mode # 0 /\ mouse_mode' # 0
                   /\ mouse_movement_distance' = mouse_movement_distance + 1
      ]_vars

\* C10: a timeout tick with mouse_mode active and no directional flag held
\* clears mouse_mode, sets the distance to the floor and writes nothing; with
\* mouse_mode active and a direction held it writes one burst of magnitude
\* distance/10 (the distance before the tick) and adds 1 to the distance;
\* with mouse_mode inactive it changes and writes nothing.
C10_Tick ==
    [][op' = "timeout" =>
          /\ k' = k
          /\ running' = running
          /\ IF mouse_mode # 0 /\ ~AnyDir(k)
             THEN /\ mouse_mode' = 0
                  /\ mouse_movement_distance' = Floor
                  /\ out' = <<>>
             ELSE IF mouse_mode # 0
             THEN /\ mouse_mode' = mouse_mode
                  /\ mouse_movement_distance' = mouse_movement_distance + 1
                  /\ out' = Burst(k, mouse_movement_distance \div 10)
             ELSE /\ mouse_mode' = mouse_mode
                  /\ mouse_movement_distance' = mouse_movement_distance
                  /\ out' = <<>>]_vars

C10_Witness ==
    /\ op = "timeout"
    /\ mouse_mode = 1
    /\ mouse_movement_distance = Floor
    /\ k.right = 1
    /\ k.up = 1
    /\ out = <<>>

----------------------------------------------------------------------------
(* Remap dispatcher: properties, over a press and its release from every   *)
(* chord state and every focused window                                    *)

\* handle_event has just handled the KEY event ev
Handled == op \in {"pressed", "released"}

\* the fields of struct state that the handler has assigned
Assigned == {trace[i].code : i \in {j \in 1..Len(trace) : trace[j].type = "store"}}

\* key pressed and released inside the press and release of the modifiers
\* mods (in press order), with the syncs of emit_key_press_mod
Bracket(mods, key) ==
    [i \in 1..Len(mods) |-> KeyRec(mods[i], 1)]
    \o <<SynRec, KeyRec(key, 1), SynRec, KeyRec(key, 0), SynRec>>
    \o [i \in 1..Len(mods) |-> KeyRec(Reverse(mods)[i], 0)]
    \o <<SynRec>>

\* C11: when select is true after the update of the flags, the event gets
\* the handling of the chord layer only: the records written are nothing or
\* one bracket that holds alt, never the alt+K of the start default, and no
\* application rule has touched mouse_mode or the distance, whatever the
\* focused window and the B flag are.
C11_ChordOnly ==
    (Handled /\ k.select # 0) =>
        /\ Assigned \cap {"mouse_mode", "mouse_movement_distance"} = {}
        /\ Never(out, KeyRec("KEY_K", 1))
        /\ \A i \in 1..Len(out) : out[i].type # EV_REL
        /\ \/ out = <<>>
           \/ \E key \in {"KEY_TAB", "KEY_ENTER", "KEY_H", "KEY_L", "KEY_SPACE"} :
                 out = Bracket(<<"KEY_LEFTALT">>, key)
           \/ out = Bracket(<<"KEY_LEFTSHIFT", "KEY_LEFTALT">>, "KEY_C")

C11_Witness ==
    /\ op = "pressed"
    /\ arg.key = DPAD_UP
    /\ k.select = 1
    /\ k.b = 1
    /\ "chromium" \in win
    /\ mouse_mode = 0
    /\ out = Bracket(<<"KEY_LEFTALT">>, "KEY_TAB")

\* C12: with select true, a press of DPAD_LEFT writes the alt+H bracket and
\* shows the window outline exactly once, whatever the focused window and
\* the B flag are.
C12_SelectLeft ==
    (op = "pressed" /\ arg.key = DPAD_LEFT /\ k.select # 0) =>
        /\ out = Bracket(<<"KEY_LEFTALT">>, "KEY_H")
        /\ outlines = 1
        /\ menus = 0

C12_Witness ==
    /\ op = "pressed"
    /\ arg.key = DPAD_LEFT
    /\ k.select = 1
    /\ k.b = 1
    /\ "mpv" \in win
    /\ outlines = 1
    /\ out[3] = KeyRec("KEY_H", 1)

\* the application identities, in the order of the claim
Identities == <<"feh", "mpv", "streamlink-twitch-gui", "chromium", "dmenu",
                "spotify", "obs", "Sausage.x86_64">>

Matching(w) == {i \in 1..Len(Identities) : Identities[i] \in w}

\* the first identity, in that order, that the window w matches
FirstMatch(w) == Identities[CHOOSE i \in Matching(w) : \A j \in Matching(w) : i <= j]

\* struct keys as the handler found it
KeysBefore ==
    IF op = "pressed" THEN before ELSE [before EXCEPT ![FlagOf(arg.key)] = 1]

\* C13: when the focused window matches more than one identity, the handler
\* has exactly the effects (records written, fields assigned) that it has for
\* a window of the first matching identity alone.
C13_FirstMatchWins ==
    (Handled /\ k.select = 0 /\ Cardinality(Matching(win)) > 1) =>
        /\ trace = handle_event(KeysBefore, mouse_movement_distance, ev,
                                {FirstMatch(win)})
        /\ \A i \in Matching(win) :
              Identities[i] # FirstMatch(win) /\ KeysBefore.b = 0
              /\ ev.code = BTN_THUMB /\ ev.value = 1
              => trace # handle_event(KeysBefore, mouse_movement_distance, ev,
                                      {Identities[i]})

C13_Witness ==
    /\ op = "pressed"
    /\ win = {"chromium", "spotify"}
    /\ k.select = 0
    /\ k.b = 0
    /\ arg.key = BTN_THUMB
    /\ out = <<KeyRec("BTN_LEFT", 1), SynRec>>

DpadCodes == {DPAD_UP, DPAD_DOWN, DPAD_LEFT, DPAD_RIGHT}

ArrowOf(code) ==
    CASE code = DPAD_UP -> "KEY_UP"
      [] code = DPAD_DOWN -> "KEY_DOWN"
      [] code = DPAD_LEFT -> "KEY_LEFT"
      [] code = DPAD_RIGHT -> "KEY_RIGHT"

\* C14: when select is not held and the focused window matches no known
\* identity, a dpad press or release writes the matching arrow key with the
\* same value and one sync, and does nothing else.
C14_DefaultArrows ==
    (Handled /\ k.select = 0 /\ Matching(win) = {} /\ arg.key \in DpadCodes) =>
        /\ out = <<KeyRec(ArrowOf(ev.code), ev.value), SynRec>>
        /\ outlines = 0
        /\ menus = 0

\* the identities whose rule moves the pointer with the dpad while B is not
\* held
MouseApps == {"streamlink-twitch-gui", "chromium", "spotify"}

\* the relative-motion burst that the rule of the focused application writes
\* on every KEY event it handles
MouseBurst ==
    IF Matching(win) # {} /\ FirstMatch(win) \in MouseApps /\ k.b = 0
    THEN Burst(k, mouse_movement_distance \div 10)
    ELSE <<>>

\* C15 as stated: a press of start while select is not held writes the
\* alt+K bracket exactly once, ahead of whatever the application rule
\* writes, for every window and B flag; a release of start writes nothing.
C15_StartDefault ==
    /\ (op = "pressed" /\ arg.key = BTN_BASE4 /\ k.select = 0) =>
          /\ Len(out) >= 8
          /\ SubSeq(out, 1, 8) = Bracket(<<"KEY_LEFTALT">>, "KEY_K")
          /\ Once(out, KeyRec("KEY_K", 1))
    /\ (op = "released" /\ arg.key = BTN_BASE4 /\ k.select = 0) =>
          out = <<>>

\* C15 amended: the press writes the alt+K bracket exactly once and first;
\* all that the press writes after it, and all that the release writes, is
\* the relative-motion burst of an application rule that moves the pointer,
\* so the release writes no key record.
C15_StartDefaultAndBurst ==
    /\ (op = "pressed" /\ arg.key = BTN_BASE4 /\ k.select = 0) =>
          out = Bracket(<<"KEY_LEFTALT">>, "KEY_K") \o MouseBurst
    /\ (op = "released" /\ arg.key = BTN_BASE4 /\ k.select = 0) =>
          out = MouseBurst

C15_Witness ==
    /\ op = "pressed"
    /\ arg.key = BTN_BASE4
    /\ k.select = 0
    /\ "chromium" \in win
    /\ k.left = 1
    /\ out = Bracket(<<"KEY_LEFTALT">>, "KEY_K")
             \o <<RelRec("REL_X", -1), SynRec>>

\* C16: with select not held, B false and a focused window of class mpv and
\* not feh, a dpad press or release writes the matching arrow key with the
\* same value and one sync, and nothing else: a DPAD_UP press writes the
\* KEY_UP press and a sync, and the KEY_UP release is written when the
\* DPAD_UP release is handled.
C16_MpvArrows ==
    (Handled /\ k.select = 0 /\ k.b = 0 /\ arg.key \in DpadCodes
     /\ "mpv" \in win /\ "feh" \notin win) =>
        /\ out = <<KeyRec(ArrowOf(ev.code), ev.value), SynRec>>
        /\ outlines = 0
        /\ menus = 0

C16_Witness ==
    /\ op = "pressed"
    /\ arg.key = DPAD_UP
    /\ win = {"mpv"}
    /\ k.select = 0
    /\ k.b = 0
    /\ out = <<KeyRec("KEY_UP", 1), SynRec>>

\* C17 as stated: with select not held, B true and a focused window of class
\* mpv, a DPAD_UP press writes exactly the KEY_L press, a sync, the KEY_L
\* release and a sync, and the DPAD_UP release writes nothing.
C17_MpvLoopFourRecords ==
    (Handled /\ k.select = 0 /\ k.b # 0 /\ arg.key = DPAD_UP
     /\ "mpv" \in win /\ "feh" \notin win) =>
        out = IF op = "pressed"
              THEN <<KeyRec("KEY_L", 1), SynRec, KeyRec("KEY_L", 0), SynRec>>
              ELSE <<>>

\* C17 amended: the DPAD_UP press writes a sync, the KEY_L press, a sync, the
\* KEY_L release and two syncs, and no arrow key; the DPAD_UP release writes
\* nothing.
C17_MpvLoopSixRecords ==
    (Handled /\ k.select = 0 /\ k.b # 0 /\ arg.key = DPAD_UP
     /\ "mpv" \in win /\ "feh" \notin win) =>
        out = IF op = "pressed"
              THEN <<SynRec, KeyRec("KEY_L", 1), SynRec, KeyRec("KEY_L", 0),
                     SynRec, SynRec>>
              ELSE <<>>

C17_Witness ==
    /\ op = "pressed"
    /\ arg.key = DPAD_UP
    /\ win = {"mpv"}
    /\ k.select = 0
    /\ k.b = 1
    /\ Len(out) = 6
    /\ out[2] = KeyRec("KEY_L", 1)

----------------------------------------------------------------------------
(* Menu subsystem: properties *)

\* the run_menu calls whose search for the chosen item is over
Searched ==
    {i \in 1..Len(menu.stack) : menu.stack[i].pc \in {"done", "callback", "exit"}}

HasLine(s) == Newlines(s) # {}

\* the text before the first newline of s
FirstLine(s) ==
    SubSeq(s, 1, (CHOOSE i \in Newlines(s) : \A j \in Newlines(s) : i <= j) - 1)

\* the least element of a set of item indexes, 0 for the empty set
FirstOf(S) == IF S = {} THEN 0 ELSE CHOOSE i \in S : \A j \in S : i <= j

\* the string a is the start of the string b
IsPrefix(a, b) == Len(a) <= Len(b) /\ SubSeq(b, 1, Len(a)) = a

\* C18 as stated: the chosen item is the first item, in list order, whose
\* name equals the chooser's line over the length of the name, so that a
\* longer line that starts with a name selects that item; output that ends
\* without a newline selects no item.
C18_NameLengthPrefix ==
    \A i \in Searched :
        LET f == menu.stack[i]
            ms == ItemsOf(f.fn)
        IN  f.choice =
               IF HasLine(f.said)
               THEN FirstOf({n \in 1..Len(ms) :
                               IsPrefix(ms[n].name, FirstLine(f.said))})
               ELSE 0

\* C18 amended: the chosen item is the first item whose name equals the whole
\* line that the chooser printed; a longer line that starts with a name, a
\* shorter one, and output that ends without a newline select no item, and
\* then run_menu does nothing between its last read and its return.
C18_WholeLine ==
    /\ \A i \in Searched :
          LET f == menu.stack[i]
              ms == ItemsOf(f.fn)
          IN  f.choice =
                 IF HasLine(f.said)
                 THEN FirstOf({n \in 1..Len(ms) : ms[n].name = FirstLine(f.said)})
                 ELSE 0
    /\ (MenuRunning /\ Top.pc = "done" /\ Top.choice = 0) =>
          /\ trace[Len(trace)].type = "chooser"
          /\ trace[Len(trace)].code = "read"

C18_Witness ==
    /\ menu.status = "running"
    /\ Len(menu.stack) = 2
    /\ Top.fn = "launch_chromium_menu"
    /\ Top.said = "refresh\n"
    /\ Top.short = 1
    /\ Top.pc = "done"
    /\ Top.choice = 1
    /\ out = emit_key_press("KEY_F5")

\* C19: when the chooser of any menu, the workspace menu of select_workspace
\* included, ends with no selection or prints a line that no item equals,
\* the step that follows the search only waits for the chooser, closes its
\* output and returns: no signal ends the process, no record is written, no
\* continuation is called.
C19_NoChoiceNoAction ==
    [][(MenuRunning /\ Top.pc = "done" /\ Top.choice = 0) =>
          /\ menu'.status # "killed"
          /\ trace' = trace \o run_menu_done]_vars

\* the continuation calls the menu process has made
Calls == SelectSeq(trace, LAMBDA r : r.type = "call")

WorkspaceNames == {"w", "v", "m", "c", "g", "1", "2", "3", "4", "5", "6"}

WorkspaceKeyOf(ws) ==
    CASE ws = "w" -> "KEY_W"
      [] ws = "v" -> "KEY_V"
      [] ws = "m" -> "KEY_M"
      [] ws = "c" -> "KEY_C"
      [] ws = "g" -> "KEY_G"
      [] ws = "1" -> "KEY_1"
      [] ws = "2" -> "KEY_2"
      [] ws = "3" -> "KEY_KPLEFTPAREN"
      [] ws = "4" -> "KEY_4"
      [] ws = "5" -> "KEY_LEFTBRACE"
      [] ws = "6" -> "KEY_EQUAL"

\* C20: when "goto workspace" or "send to workspace" was chosen and the
\* chooser of the workspace menu prints a line equal to one of its names,
\* the continuation stored in the outer item is called exactly once, with
\* exactly that name, and writes the bracket mapped to it: meta (goto) or
\* shift and meta (send) around the key of the workspace.
C20_Continuation ==
    [][(/\ MenuRunning
        /\ Top.fn = "select_workspace"
        /\ Top.pc = "done"
        /\ HasLine(Top.said)
        /\ FirstLine(Top.said) \in WorkspaceNames) =>
          LET ws == FirstLine(Top.said)
              outer == launch_menu_items[Caller.choice]
          IN  /\ outer.name \in {"goto workspace", "send to workspace"}
              /\ Calls' = <<[type |-> "call",
                             code |-> IF outer.name = "goto workspace"
                                      THEN "goto_workspace"
                                      ELSE "send_to_workspace",
                             value |-> ws]>>
              /\ out' = out \o
                    Bracket(IF outer.name = "goto workspace"
                            THEN <<"KEY_LEFTMETA">>
                            ELSE <<"KEY_LEFTSHIFT", "KEY_LEFTMETA">>,
                            WorkspaceKeyOf(ws))
              /\ menu'.status = "running"]_vars

C20_Witness ==
    /\ menu.status = "running"
    /\ Len(menu.stack) = 1
    /\ Top.pc = "done"
    /\ Top.choice = 1
    /\ launch_menu_items[Top.choice].name = "goto workspace"
    /\ Calls = <<[type |-> "call", code |-> "goto_workspace", value |-> "w"]>>
    /\ out = Bracket(<<"KEY_LEFTMETA">>, "KEY_W")

\* the records of the exchange with the choosers, in the order they happened
Protocol == SelectSeq(trace, LAMBDA r : r.type = "chooser")

MenuNames == {"launch_menu"} \cup MenuFunctions

\* the records from position i on are the names of some menu, each followed
\* by a newline, all of them and in the order of the items
LabelsAt(p, i) ==
    \E fn \in MenuNames :
        /\ i + Len(ItemsOf(fn)) - 1 <= Len(p)
        /\ \A j \in 1..Len(ItemsOf(fn)) :
               p[i + j - 1] = [type |-> "chooser", code |-> "write",
                               value |-> ItemsOf(fn)[j].name \o "\n"]
        /\ i + Len(ItemsOf(fn)) <= Len(p) =>
               p[i + Len(ItemsOf(fn))].code = "close"

\* the record b may come right after the record a
MayFollow(a, b) ==
    CASE a.code = "fork" -> b.code = "write"
      [] a.code = "write" -> b.code = "write"
                             \/ (b.code = "close" /\ b.value = "stdin")
      [] a.code = "close" /\ a.value = "stdin" -> b.code = "read"
      [] a.code = "read" /\ a.value = 0 -> b.code = "waitpid"
      [] a.code = "read" /\ a.value # 0 -> b.code \in {"read", "fork", "waitpid"}
      [] a.code = "waitpid" -> b.code = "close" /\ b.value = "stdout"
      [] a.code = "close" /\ a.value = "stdout" -> b.code = "waitpid"

CountOf(p, code) == Cardinality({i \in 1..Len(p) : p[i].code = code})

\* the frames of the calls of run_menu that have forked and not returned
Inside == {i \in 1..Len(menu.stack) :
              menu.stack[i].pc \in {"write", "close", "read", "newline",
                                    "callback", "done"}}

\* C21: in every run of run_menu that does not abort the names are written
\* first, all of them and each followed by a newline, then the input of the chooser is closed, then
\* its output is read up to the first newline or to the end of the stream, and
\* every call that has returned has waited for its chooser and then closed the
\* output pipe
C21_ProtocolOrder ==
    LET p == Protocol
    IN  menu.status # "aborted" =>
        /\ \A i \in 1..(Len(p) - 1) : MayFollow(p[i], p[i + 1])
        /\ \A i \in 1..(Len(p) - 1) : p[i].code = "fork" => LabelsAt(p, i + 1)
        /\ p # <<>> => p[1].code = "fork"
        /\ p # <<>> => p[Len(p)].code # "waitpid"
        /\ CountOf(p, "fork") - CountOf(p, "waitpid") = Cardinality(Inside)
        /\ \A i \in 1..Len(menu.stack) :
               menu.stack[i].pc \in {"newline", "callback", "done", "exit",
                                     "returned"} =>
                   LET f == menu.stack[i]
                   IN  IF HasLine(f.said)
                       THEN f.buf = FirstLine(f.said)
                       ELSE f.buf = f.said /\ f.rest = ""

\* a submenu and the top menu have both returned after a choice that emitted
C21_Witness ==
    /\ menu.status = "exited"
    /\ CountOf(Protocol, "fork") = CountOf(Protocol, "waitpid")
    /\ CountOf(Protocol, "fork") = Len(menu.stack) + 1
    /\ out # <<>>

\* the record r has a type and a code that state_init declared
Declared(r) ==
    /\ r.type \in UI_SET_EVBIT
    /\ r.type = EV_KEY => r.code \in UI_SET_KEYBIT
    /\ r.type = EV_REL => r.code \in UI_SET_RELBIT

\* C26: every key code and axis code that is written to the sink was declared
\* by state_init
C26_EmittedDeclared == \A i \in 1..Len(out) : Declared(out[i])

\* the handler has run on a KEY event
HandledKey == op \in {"event", "pressed", "released"} /\ ev.type = EV_KEY

\* the identity that governs the focused window, "none" when none matches
Governing == IF Matching(win) = {} THEN "none" ELSE FirstMatch(win)

\* C30: after the handling of a KEY event with select false, mouse_mode has
\* been set to 1 for streamlink-twitch-gui, chromium and spotify with B not
\* held, set to 0 for feh and mpv with B not held, for dmenu and
\* Sausage.x86_64 always and for chromium and spotify with B held, and has
\* not been assigned in the other cases: feh, mpv and streamlink-twitch-gui
\* with B held, obs, and no match.
C30_MouseModeByIdentityAndB ==
    (HandledKey /\ k.select = 0) =>
        IF Governing \in {"streamlink-twitch-gui", "chromium", "spotify"}
           /\ k.b = 0
        THEN "mouse_mode" \in Assigned /\ mouse_mode = 1
        ELSE IF \/ Governing \in {"feh", "mpv"} /\ k.b = 0
                \/ Governing \in {"dmenu", "Sausage.x86_64"}
                \/ Governing \in {"chromium", "spotify"} /\ k.b # 0
        THEN "mouse_mode" \in Assigned /\ mouse_mode = 0
        ELSE "mouse_mode" \notin Assigned

\* in chromium, with the pointer mode on, the press of B has turned it off
C30_Witness ==
    /\ op = "event"
    /\ ev = [type |-> EV_KEY, code |-> BTN_THUMB2, value |-> 1]
    /\ Governing = "chromium"
    /\ k.select = 0
    /\ mouse_movement_distance >= Floor
    /\ mouse_mode = 0

\* C29: the flags are updated before the layer is chosen for the same event:
\* the press of select gets the chord layer (no application rule runs, so
\* mouse_mode is not assigned), the release of select gets the rule of the
\* focused application with the flags as updated, and the press of B with
\* select false gets the rule of the focused application with b already 1.
C29_UpdateBeforeDispatch ==
    [][/\ (op = "call" /\ arg.key = BTN_BASE3) =>
              /\ trace' = update_key_state(Press(BTN_BASE3))
                          \o select_chord(Press(BTN_BASE3))
              /\ out' = <<>>
              /\ \A i \in 1..Len(trace') : trace'[i].code # "mouse_mode"
       /\ (op = "pressed" /\ arg.key = BTN_BASE3) =>
              /\ k'.select = 0
              /\ trace' = update_key_state(Release(BTN_BASE3))
                          \o app_chain(k', mouse_movement_distance,
                                       Release(BTN_BASE3), win)
       /\ (op = "call" /\ arg.key = BTN_THUMB2 /\ k.select = 0) =>
              /\ k'.b = 1
              /\ trace' = update_key_state(Press(BTN_THUMB2))
                          \o app_chain([k EXCEPT !.b = 1],
                                       mouse_movement_distance,
                                       Press(BTN_THUMB2), win)
      ]_vars

\* the release of select in a dmenu window has run the dmenu rule, which
\* turned the pointer mode off
C29_Witness ==
    /\ op = "released"
    /\ arg.key = BTN_BASE3
    /\ Governing = "dmenu"
    /\ before.b = 1
    /\ "mouse_mode" \in Assigned
    /\ mouse_mode = 0
    /\ mouse_movement_distance = Floor

\* the effects of the handler on a window that matches no identity: the flag
\* update and, for a press of start, the alt+K bracket
C28_NoClassNoRule ==
    (HandledKey /\ win = NoClass /\ k.select = 0) =>
        /\ \A i \in 1..Len(Identities) :
               ~xlib_window_has_class(win, Identities[i])
        /\ trace = update_key_state(ev)
                   \o OnPress(ev, BTN_BASE4, "KEY_K", [NoMod EXCEPT !.alt = 1])

\* C28: for a focused window with no class property the lookup matches no
\* identity, the handler runs to its end, and the event gets the default
\* behaviour: a dpad press or release writes the matching arrow key with the
\* same value and one sync.
C28_NoClassDefault ==
    (HandledKey /\ win = NoClass /\ k.select = 0) =>
        /\ \A i \in 1..Len(Identities) :
               ~xlib_window_has_class(win, Identities[i])
        /\ ev.code \in DpadCodes /\ IsPressOrRelease(ev) =>
               out = <<KeyRec(ArrowOf(ev.code), ev.value), SynRec>>

\* the step is one of the process of main
MainStep == op' # op \/ dev' # dev

\* the effects of the step: main replaces trace, or leaves it when the drain
\* ends, the menu process adds to its end
NewEffects ==
    IF MainStep
    THEN IF op = "pollin" /\ op' = "unhandled" THEN <<>> ELSE trace'
    ELSE SubSeq(trace', Len(trace) + 1, Len(trace'))

\* main has taken an event from the device and dispatched it
Dispatches == op = "pollin" /\ dev'.input # dev.input

\* launch_menu has been called and the chooser of the top menu has not yet
\* been given the end of its input: it cannot have been dismissed
ChooserOpen ==
    /\ menu.status = "running"
    /\ Len(menu.stack) = 1
    /\ menu.stack[1].pc \in {"fork", "write", "close"}

\* C22 as stated: while the menu is open the loop handles no device event
\* and no timeout tick
C22_Modal ==
    [][ChooserOpen => ~Dispatches /\ ~(op = "poll" /\ op' = "timeout")]_vars

\* C22: launch_menu does not block the loop: when the handler that called it
\* returns, the menu process has only just been forked, its chooser is not
\* started yet, and main goes on with the drain of the device
C22_LaunchDetaches ==
    [][(Dispatches /\ menus' > 0 /\ menu.status # "running"
        /\ op' # "aborted") =>
           /\ op' = "pollin"
           /\ menu'.status = "running"
           /\ menu'.stack = <<Frame("launch_menu", "NULL")>>]_vars

\* the chooser is open and main has handled a press of left, in the chord
\* layer, after the press of start that opened the menu
C22_Witness ==
    /\ ChooserOpen
    /\ menu.stack[1].pc = "close"
    /\ op = "pollin"
    /\ ev = Press(DPAD_LEFT)
    /\ k.select = 1
    /\ k.start = 1
    /\ SubSeq(out, 1, Len(Bracket(<<"KEY_LEFTALT">>, "KEY_H")))
           = Bracket(<<"KEY_LEFTALT">>, "KEY_H")

\* C23: whenever poll reports POLLHUP, whatever the other flags, the loop
\* sets running to 0 and does not abort
C23_HangupGraceful ==
    [][(MainStep /\ op = "revents" /\ POLLHUP \in dev.revents) =>
           running' = 0 /\ op' # "aborted"]_vars

\* POLLHUP together with POLLERR sets running to 0 and goes on to the drain
C23_HangupWithError ==
    [][(MainStep /\ op = "revents"
        /\ {POLLHUP, POLLERR} \subseteq dev.revents) =>
           running' = 0 /\ op' = "pollin"]_vars

\* C24: on a wake-up with POLLIN the events are read in the order they
\* arrived and each is dispatched before the next is read, a read that would
\* block ends the drain without an abort, and when the drain has ended none
\* of the events that were buffered at the wake-up is left
C24_Drain ==
    /\ [][(Dispatches /\ op' # "aborted") =>
              /\ ev' = Head(dev.input)
              /\ dev'.input = Tail(dev.input)
              /\ trace' = handle_event(k, mouse_movement_distance,
                                       Head(dev.input), win)
              /\ op' = "pollin"]_vars
    /\ [][(MainStep /\ op = "pollin" /\ POLLIN \in dev.revents
           /\ dev.input = <<>>) =>
              op' = "unhandled" /\ POLLIN \notin dev'.revents]_vars
    /\ [](op = "unhandled" => dev.left = 0 /\ dev.input = <<>>)

\* the drain has ended after the press of select and the press of left, which
\* was handled in the chord layer
C24_Witness ==
    /\ op = "unhandled"
    /\ dev.revents = {}
    /\ dev.left = 0
    /\ ev = Press(DPAD_LEFT)
    /\ k.select = 1
    /\ out = Bracket(<<"KEY_LEFTALT">>, "KEY_H")

\* the places in the effects t where a transfer was short: a write of a
\* record to the sink, a write of a name to the chooser
Shorts(t) ==
    {i \in 1..Len(t) :
        \/ t[i].type = "short"
        \/ t[i].type = "chooser" /\ t[i].code = "short write"}

\* the effects t end with one short transfer and the abort it causes
EndsInAbort(t) ==
    /\ Len(t) > 1
    /\ Shorts(t) = {Len(t) - 1}
    /\ t[Len(t)].type = "abort"

\* C25: a short read of an input record, a short write of a record to the
\* sink and a short write of a menu name each end the process that made it:
\* the short transfer is the last thing the process does before the abort,
\* the event of a short read is not dispatched, nothing is written again, and
\* an aborted process takes no further step.
C25_ShortTransferFatal ==
    [][/\ (MainStep /\ Shorts(NewEffects) # {}) =>
              op' = "aborted" /\ EndsInAbort(NewEffects)
       /\ (MainStep /\ Aborts(NewEffects)
           /\ NewEffects[Len(NewEffects)].code = "unexpected partial read") =>
              /\ op' = "aborted"
              /\ UNCHANGED <<k, mouse_mode, mouse_movement_distance, ev, dev>>
       /\ (~MainStep /\ Shorts(NewEffects) # {}) =>
              menu'.status = "aborted" /\ EndsInAbort(NewEffects)
       /\ op = "aborted" =>
              UNCHANGED <<op, k, mouse_mode, mouse_movement_distance, running,
                          ev, dev>>
       /\ (menu.status = "aborted" /\ ~MainStep) => menu' = menu
      ]_vars

\* main has aborted on a short write that came after complete ones
C25_Witness ==
    /\ op = "aborted"
    /\ EndsInAbort(trace)
    /\ trace[Len(trace) - 1].type = "short"
    /\ Writes(trace) # {}

\* the handshake of state_init comes before every record, main writes
\* records only inside its loop, and state_deinit destroys the device before
\* it closes the descriptor
SinkOrder ==
    /\ (MainStep /\ op = "main") =>
           dev.uinput = "closed" /\ Writes(NewEffects) = {}
    /\ (MainStep /\ Writes(NewEffects) # {}) =>
           op \in {"poll", "pollin"} /\ dev.uinput = "created"
    /\ (MainStep /\ op = "deinit") =>
           /\ dev.uinput = "created"
           /\ dev'.uinput = "closed"
           /\ \E i, j \in 1..Len(trace') :
                 /\ i < j
                 /\ trace'[i].code = "UI_DEV_DESTROY"
                 /\ trace'[j].code = "uinput_fd"

\* C27 as stated: the handshake precedes the first record, no record is
\* written once state_deinit has begun, and the device is destroyed before
\* its descriptor is closed
C27_NoRecordAfterTeardown ==
    [][/\ SinkOrder
       /\ Writes(NewEffects) # {} => dev.uinput = "created"
       /\ op \in {"deinit", "exited"} => Writes(NewEffects) = {}]_vars

\* C27: the handshake precedes the first record, main writes no record once
\* state_deinit has begun, every record of the menu process is written while
\* the device exists (after UI_DEV_DESTROY its write fails), and the device
\* is destroyed before its descriptor is closed
C27_SinkLifecycle ==
    [][/\ SinkOrder
       /\ Writes(NewEffects) # {} => dev.uinput = "created"
       /\ (MainStep /\ op \in {"deinit", "exited"}) => Writes(NewEffects) = {}
      ]_vars

\* main has destroyed and closed the device, and the menu process, which
\* then chose ESC, has ended on the CHECK of its write
C27_Witness ==
    /\ op = "exited"
    /\ dev.uinput = "closed"
    /\ menu.status = "aborted"
    /\ menu.stack[1].pc = "newline"
    /\ Aborts(trace)
    /\ trace[1].code = "UI_DEV_DESTROY"

\* the ways the menu process ends: exit(0) of launch_menu, a failwith or a
\* failed CHECK, a signal
Ended == {"exited", "aborted", "killed"}

\* C31: the menu process never comes back to the loop of main: it is always
\* inside launch_menu or ended, a step of it leaves the flags of the
\* controls, mouse_mode, mouse_movement_distance, running and the input
\* device as they are, and once it has ended it takes no step
C31_MenuProcessApart ==
    /\ [](menu.status # "none" =>
             /\ menu.status \in {"running"} \cup Ended
             /\ menu.stack # <<>>
             /\ menu.stack[1].fn = "launch_menu")
    /\ [][~MainStep =>
             /\ UNCHANGED <<k, mouse_mode, mouse_movement_distance, running>>
             /\ dev'.input = dev.input
             /\ menu.status = "running"]_vars

\* the menu process has emitted the ESC that was chosen and has exited while
\* main, with select and start held, is in the drain of the device
C31_Witness ==
    /\ menu.status = "exited"
    /\ menu.stack[1].pc = "exit"
    /\ k.select = 1
    /\ k.start = 1
    /\ op = "pollin"
    /\ dev.input # <<>>
    /\ \E i \in 1..Len(trace) : /\ trace[i].type = EV_KEY
                                /\ trace[i].code = "KEY_ESC"

----------------------------------------------------------------------------
(* The keys held down on the uinput device: the event loop of main with    *)
(* the history sink of what its records leave pressed                      *)

\* the keys that are down after the records of the effects t have been
\* written to a device on which the keys of s were down
KeysDown(s, t) ==
    LET at(key) == {i \in 1..Len(t) : t[i].type = EV_KEY /\ t[i].code = key}
        written == {t[i].code : i \in {j \in 1..Len(t) : t[j].type = EV_KEY}}
    IN  {key \in s \cup written :
            IF at(key) = {} THEN key \in s
            ELSE t[CHOOSE i \in at(key) : \A j \in at(key) : j <= i].value # 0}

KeysInit ==
    /\ state_init
    /\ menu = NoMenu
    /\ dev = Created
    /\ sink = {}
    /\ st = NoSwitcher
    /\ win \in {{"feh"}, {"mpv"}}
    /\ op = "poll"
    /\ ev = NoEvent
    /\ arg = NoArg
    /\ before = NoKeys

\* poll reports POLLIN and read_event returns the record e: a press of a
\* control that is released or a release of a control that is pressed
KeysEvent(e) ==
    /\ op = "poll"
    /\ running # 0
    /\ IsPressOrRelease(e)
    /\ Keys(k, update_key_state(e)) # k
    /\ Held(Keys(k, update_key_state(e))) <= MaxHeld
    /\ Commit(handle_event(k, mouse_movement_distance, e, win))
    /\ sink' = KeysDown(sink, handle_event(k, mouse_movement_distance, e, win))
    /\ op' = "event"
    /\ ev' = e
    /\ UNCHANGED <<menu, dev, st, win, arg, before>>

KeysNext ==
    \/ \E e \in KeyEvents : KeysEvent(e)
    \/ HandleTimeout
    \/ EndIteration
    \/ \E w \in {{"feh"}, {"mpv"}} : FocusChange(w)

SpecKeys == KeysInit /\ [][KeysNext]_vars

\* C32: whenever every tracked control is released, no key is down on the
\* uinput device
C32_NoStuckKey == k = NoKeys => sink = {}

\* C33: mouse_movement_distance is at least the floor in every state from
\* state_init on
C33_DistanceAtLeastFloor == mouse_movement_distance >= Floor

----------------------------------------------------------------------------
(* The event loop of main with its scheduling: poll returns 0 once its     *)
(* timeout has passed without an event, and a handler that was called      *)
(* returns                                                                 *)

LiveInit ==
    /\ state_init
    /\ menu = NoMenu
    /\ dev = Created
    /\ sink = {}
    /\ st = NoSwitcher
    /\ win \in {{"chromium"}, {"mpv"}}
    /\ op = "poll"
    /\ ev = NoEvent
    /\ arg = NoArg
    /\ before = NoKeys

LiveNext ==
    \/ \E e \in {Press(DPAD_LEFT), Release(DPAD_LEFT),
                Press(DPAD_UP), Release(DPAD_UP),
                Press(BTN_THUMB2), Release(BTN_THUMB2)} : HandleEvent(e)
    \/ HandleTimeout
    \/ EndIteration
    \/ \E w \in {{"chromium"}, {"mpv"}} : FocusChange(w)

SpecLive ==
    /\ LiveInit
    /\ [][LiveNext]_vars
    /\ WF_vars(HandleTimeout)
    /\ WF_vars(EndIteration)

----------------------------------------------------------------------------
(* The chord layer and mouse emulation *)

\* the step is the dispatch of a KEY event with select held once
\* update_key_state has run
ChordDispatch ==
    /\ op = "poll"
    /\ op' = "event"
    /\ ev'.type = EV_KEY
    /\ k'.select = 1

\* the step is a timeout tick of an episode of mouse emulation with select
\* and a direction held
ChordTick ==
    /\ op = "poll"
    /\ op' = "timeout"
    /\ k.select = 1
    /\ mouse_mode = 1
    /\ AnyDir(k)

\* the frame half of C35: a dispatch in the chord layer leaves mouse_mode and
\* the distance as they are, and a tick with select held goes on as any tick
\* of the episode: the burst for distance/10, the distance incremented
C35_ChordFrame ==
    [][/\ ChordDispatch =>
              UNCHANGED <<mouse_mode, mouse_movement_distance>>
       /\ ChordTick =>
              /\ mouse_mode' = 1
              /\ mouse_movement_distance' = mouse_movement_distance + 1
              /\ out' = Burst(k, mouse_movement_distance \div 10)]_vars

\* C35: a dispatch in the chord layer leaves mouse_mode and the distance as
\* they are, and every tick of an episode with select and a direction held
\* writes relative motion
C35_ChordKeepsMotion ==
    [][/\ ChordDispatch =>
              UNCHANGED <<mouse_mode, mouse_movement_distance>>
       /\ ChordTick =>
              \E i \in 1..Len(out') : out'[i].type = EV_REL]_vars

----------------------------------------------------------------------------
(* The two writers of the uinput device: main and the menu process that    *)
(* launch_menu has detached both hold uinput_fd, and every emit_event is a *)
(* write of its own. Here trace holds what both have done, in the order it *)
(* was done, and the callback of the menu process goes one effect at a     *)
(* time.                                                                   *)

\* main is back in poll after the press of start, with select held, for
\* which handle_event has called launch_menu
RaceInit ==
    /\ k = [NoKeys EXCEPT !.select = 1, !.start = 1]
    /\ mouse_mode = 0
    /\ mouse_movement_distance = 0
    /\ running = 1
    /\ win = {"mpv"}
    /\ op = "poll"
    /\ ev = Press(BTN_BASE4)
    /\ arg = NoArg
    /\ before = NoKeys
    /\ trace = <<>>
    /\ menu = launch_menu_child(NoMenu)
    /\ dev = Created
    /\ sink = {}
    /\ st = NoSwitcher

\* one iteration of the loop of main: poll reports POLLIN, read_event
\* returns the record e, handle_event runs, the next read would block
RaceEvent(e) ==
    /\ op = "poll"
    /\ running # 0
    /\ Len(out) < MaxWritten
    /\ Keys(k, update_key_state(e)) # k
    /\ LET t == handle_event(k, mouse_movement_distance, e, win)
       IN  /\ trace' = trace \o t
           /\ k' = Keys(k, t)
           /\ mouse_mode' = Stored(t, "mouse_mode", mouse_mode)
           /\ mouse_movement_distance'
                 = Stored(t, "mouse_movement_distance", mouse_movement_distance)
           /\ running' = Stored(t, "running", running)
           /\ sink' = KeysDown(sink, t)
    /\ ev' = e
    /\ UNCHANGED <<menu, dev, st, win, op, arg, before>>

\* the for loop after the label newline, up to the call of the callback
run_menu_call ==
    /\ MenuRunning
    /\ Top.pc = "newline"
    /\ LET ms == ItemsOf(Top.fn)
           c == first_match(ms, Top.buf)
       IN  menu' =
             IF c = 0 THEN SetTop([Top EXCEPT !.pc = "done"])
             ELSE IF ms[c].callback \in MenuFunctions
             THEN [menu EXCEPT !.stack =
                      Append(SetTop([Top EXCEPT !.pc = "callback",
                                                !.choice = c]).stack,
                             Frame(ms[c].callback, ms[c].opaque))]
             ELSE SetTop([Top EXCEPT
                      !.pc = "emit", !.choice = c,
                      !.todo = IF ms[c].callback = "emit_key_press_callback"
                               THEN emit_key_press_callback(ms[c])
                               ELSE IF ms[c].callback = "run_command_callback"
                               THEN run_command_callback(ms[c])
                               ELSE <<>>])
    /\ trace' = trace
    /\ sink' = sink
    /\ UNCHANGED <<k, mouse_mode, mouse_movement_distance, running, win, op,
                   ev, arg, before, dev, st>>

\* the callback does the next thing it has to do: one emit_event, which is
\* one write to the uinput device, or the sleep; after the last it returns
callback_step ==
    /\ MenuRunning
    /\ Top.pc = "emit"
    /\ IF Top.todo = <<>>
       THEN /\ menu' = SetTop([Top EXCEPT !.pc = "done"])
            /\ trace' = trace
            /\ sink' = sink
       ELSE LET t == Sunk(<<Head(Top.todo)>>)
            IN  /\ trace' = trace \o t
                /\ sink' = KeysDown(sink, t)
                /\ menu' = IF Aborts(t)
                           THEN [menu EXCEPT !.status = "aborted"]
                           ELSE SetTop([Top EXCEPT !.todo = Tail(@)])
    /\ UNCHANGED <<k, mouse_mode, mouse_movement_distance, running, win, op,
                   ev, arg, before, dev, st>>

RaceNext ==
    \/ \E e \in {Press(DPAD_LEFT), Release(DPAD_LEFT), Release(BTN_BASE3)} :
          RaceEvent(e)
    \/ run_menu_fork
    \/ run_menu_write(0)
    \/ \E said \in {"", "ESC\n", "toggle status bar\n"} : run_menu_close(said)
    \/ \E n \in {Len(Top.rest)} : run_menu_read(n)
    \/ run_menu_call
    \/ callback_step
    \/ launch_menu_exit

SpecRace == RaceInit /\ [][RaceNext]_vars

\* the records among the effects t
Records(t) == SelectSeq(t, LAMBDA r : r.type \in {EV_KEY, EV_REL, EV_SYN})

\* the sequence part is in the sequence whole without a gap
Contiguous(part, whole) ==
    \E p \in 0..(Len(whole) - Len(part)) :
        SubSeq(whole, p + 1, p + Len(part)) = part

\* C36: when emit_key_press_callback has returned in the menu process, the
\* records of its emit_key_press_mod call are on the uinput device one after
\* the other, with no other record between them
C36_BracketContiguous ==
    (/\ menu.status \in {"running", "exited"}
     /\ menu.stack[1].pc \in {"done", "exit"}
     /\ menu.stack[1].choice # 0) =>
        Contiguous(
            Records(emit_key_press_callback(
                        ItemsOf("launch_menu")[menu.stack[1].choice])),
            out)

----------------------------------------------------------------------------
(* The process of main step by step with an application focused whose rule *)
(* moves the pointer, and no menu                                          *)


\* what the device has buffered when poll reports POLLIN: presses and
\* releases of left
PollBatches ==
    UNION {[1..n -> {Press(DPAD_LEFT), Release(DPAD_LEFT)}] :
              n \in 1..MaxBuffered}

PollInit ==
    /\ k = NoKeys
    /\ mouse_mode = 0
    /\ mouse_movement_distance = 0
    /\ running = 0
    /\ win = {"chromium"}
    /\ op = "main"
    /\ ev = NoEvent
    /\ arg = NoArg
    /\ before = NoKeys
    /\ trace = <<>>
    /\ menu = NoMenu
    /\ dev = [input |-> <<>>, revents |-> {}, left |-> 0, uinput |-> "closed",
              timeout |-> 0]
    /\ sink = {}
    /\ st = NoSwitcher

PollNext ==
    \/ \E r \in {"ok", "fail"} : StateInit(r)
    \/ PollTimeout
    \/ PollFails
    \/ \E revents \in SUBSET {POLLIN, POLLERR, POLLHUP} :
          \E batch \in PollBatches \cup {<<>>} : PollEvents(revents, batch)
    \/ PollErr
    \/ \E r \in {"full", "short", "error"} : ReadEvent(r)
    \/ ReadWouldBlock
    \/ NoPollIn
    \/ Unhandled
    \/ EndIteration
    \/ StateDeinit
    \/ StateDeinitDestroy

SpecPoll == PollInit /\ [][PollNext]_vars

\* the step is a call of poll
Polls == op = "poll" /\ running # 0

\* C37: poll is called with 10 ms when mouse_mode is set and with 10000 ms
\* otherwise; handle_timeout runs only when poll has returned 0, with no
\* event read before or after it in the iteration; the events are handled
\* only when poll has reported flags, and then handle_timeout does not run;
\* the distance changes only in the iterations of the first kind
C37_OneBranch ==
    [][/\ Polls =>
              /\ dev'.timeout = IF mouse_mode # 0 THEN ShortTimeout
                                ELSE LongTimeout
              /\ op' \in {"timeout", "revents", "aborted"}
       /\ op' = "timeout" =>
              /\ Polls
              /\ dev.input = <<>> /\ dev.revents = {}
              /\ dev'.input = <<>> /\ dev'.revents = {}
       /\ op = "timeout" => op' = "poll" /\ trace' = <<>>
       /\ op \in {"revents", "pollin", "unhandled"} =>
              op' \in {"pollin", "unhandled", "poll", "aborted"}
       /\ mouse_movement_distance' # mouse_movement_distance =>
              /\ Polls
              /\ op' \in {"timeout", "aborted"}
              /\ dev'.revents = {}
              /\ dev'.input = <<>>]_vars

\* a tick of an episode: poll was called with 10 ms, returned 0, and
\* handle_timeout has written a burst and incremented the distance
C37_Witness ==
    /\ op = "timeout"
    /\ dev.timeout = ShortTimeout
    /\ k.left = 1
    /\ mouse_mode = 1
    /\ mouse_movement_distance = Floor + 1
    /\ out = <<RelRec("REL_X", -1), SynRec>>

\* the process has ended in failwith with the diagnostic msg
AbortedWith(msg) ==
    /\ op' = "aborted"
    /\ Aborts(trace')
    /\ trace'[Len(trace')].code = msg

\* C38: POLLERR reported without POLLHUP ends the process; a flag that is
\* still set after the POLLERR block and the drain ends the process; the
\* loop comes back to poll only with no flag left
C38_UnhandledAborts ==
    /\ [][/\ (op = "revents" /\ POLLERR \in dev.revents
                 /\ POLLHUP \notin dev.revents) =>
                 AbortedWith("unhandled poll error condition")
          /\ (op = "unhandled" /\ dev.revents # {}) =>
                 AbortedWith("unhandled events")
          /\ (op # "poll" /\ op' = "poll") => dev.revents = {}]_vars
    /\ [](op = "poll" => dev.revents = {})

\* poll reported POLLHUP alone: the POLLERR block and the drain were passed
\* and the for loop has ended the process
C38_Witness ==
    /\ op = "aborted"
    /\ dev.revents = {POLLHUP}
    /\ Aborts(trace)
    /\ trace[Len(trace)].code = "unhandled events"

----------------------------------------------------------------------------
(* The layout switcher: a program of its own that follows the input focus  *)
(* and runs the command of the keyboard layout the focused window wants.   *)
(* st holds its struct state and the window the X server has focused.      *)

\* the windows of the X server by their number: name and WM_CLASS strings
XWindows ==
    <<[name |-> "st", class |-> {"st-256color"}],
      [name |-> "NetHack", class |-> {"nethack", "Nethack"}],
      [name |-> "Caesar III", class |-> {}],
      [name |-> "", class |-> {"musescore"}],
      [name |-> "Caesar III", class |-> {"feh"}],
      [name |-> "nethack", class |-> {"mpv", "gl"}]>>

window_has_class(w, cls) == cls \in w.class

window_has_name(w, name) == w.name = name

\* the switch statement of set_layout
layout_cmd(l) ==
    CASE l = "DVORAK" -> "~/bin/dv"
      [] l = "ENGLISH" -> "~/bin/us"
      [] l = "SWEDISH" -> "~/bin/sv"

\* set_layout that records the layout before it looks at the exit code
set_layout_records_first(layout, l, ec) ==
    IF layout = l THEN <<>>
    ELSE IF l \notin {"DVORAK", "ENGLISH", "SWEDISH"}
    THEN failwith("unsupported layout")
    ELSE <<[type |-> "system", code |-> layout_cmd(l), value |-> ec]>>
         \o Store("layout", l)
         \o (IF ec = -1 THEN failwith("CHECK")
             ELSE IF ec # 0 THEN warning("changing to layout failed")
             ELSE <<>>)

\* set_layout(st, l) when st->layout is layout and system returns ec
set_layout(layout, l, ec) ==
    IF layout = l THEN <<>>
    ELSE IF l \notin {"DVORAK", "ENGLISH", "SWEDISH"}
    THEN failwith("unsupported layout")
    ELSE <<[type |-> "system", code |-> layout_cmd(l), value |-> ec]>>
         \o (IF ec = -1 THEN failwith("CHECK")
             ELSE IF ec # 0 THEN warning("changing to layout failed")
             ELSE Store("layout", l))

focus_changed(layout, w, ec) ==
    IF \/ window_has_class(w, "musescore")
       \/ window_has_class(w, "BaldursGate")
       \/ window_has_class(w, "Dwarf_Fortress")
       \/ window_has_class(w, "nethack")
       \/ window_has_name(w, "Caesar III")
       \/ window_has_class(w, "devilutionx")
    THEN set_layout(layout, "ENGLISH", ec)
    ELSE set_layout(layout, "DVORAK", ec)

\* check_focus when the focused window is wx, x11_window returns r and
\* system returns ec
check_focus(s, wx, r, ec) ==
    IF wx = s.active THEN <<>>
    ELSE Store("active", wx)
         \o (IF r # 0 THEN <<>> ELSE focus_changed(s.layout, XWindows[wx], ec))

\* main up to the loop: the layout is "DVORAK", the active window is the one
\* that has the focus
LayoutInit ==
    /\ st \in {[layout |-> "DVORAK", active |-> w, focus |-> w] :
                  w \in 1..Len(XWindows)}
    /\ op = "poll"
    /\ trace = <<>>
    /\ running = 1
    /\ k = NoKeys
    /\ mouse_mode = 0
    /\ mouse_movement_distance = 0
    /\ win = NoClass
    /\ ev = NoEvent
    /\ arg = NoArg
    /\ before = NoKeys
    /\ menu = NoMenu
    /\ dev = Created
    /\ sink = {}

\* the switcher has run check_focus with the effects t
LayoutCommit(t) ==
    /\ trace' = t
    /\ st' = [layout |-> Stored(t, "layout", st.layout),
              active |-> Stored(t, "active", st.active),
              focus |-> st.focus]
    /\ op' = IF Aborts(t) THEN "aborted" ELSE "check_focus"
    /\ UNCHANGED <<k, mouse_mode, mouse_movement_distance, running, win, ev,
                   arg, before, menu, dev, sink>>

\* the timer has ticked: timerfd_ticks calls check_focus
timerfd_ticks(r, ec) ==
    /\ op = "poll"
    /\ running # 0
    /\ LayoutCommit(<<[type |-> "trace", code |-> "tick", value |-> 0]>>
                    \o check_focus(st, st.focus, r, ec))

\* the X server has sent FocusOut: x11_handle_event calls check_focus
x11_handle_event(r, ec) ==
    /\ op = "poll"
    /\ running # 0
    /\ LayoutCommit(check_focus(st, st.focus, r, ec))

\* the handler returns and the loop comes back to poll
LayoutReturn ==
    /\ op = "check_focus"
    /\ op' = "poll"
    /\ trace' = <<>>
    /\ UNCHANGED <<k, mouse_mode, mouse_movement_distance, running, win, ev,
                   arg, before, menu, dev, sink, st>>

\* the X server moves the input focus to the window w
XSetInputFocus(w) ==
    /\ op = "poll"
    /\ w # st.focus
    /\ st' = [st EXCEPT !.focus = w]
    /\ UNCHANGED <<k, mouse_mode, mouse_movement_distance, running, win, ev,
                   arg, before, menu, dev, sink, op, trace>>

LayoutNext ==
    \/ \E r \in {0, -1} : \E ec \in {0, 256, -1} : timerfd_ticks(r, ec)
    \/ \E r \in {0, -1} : \E ec \in {0, 256, -1} : x11_handle_event(r, ec)
    \/ LayoutReturn
    \/ \E w \in 1..Len(XWindows) : XSetInputFocus(w)

SpecLayout == LayoutInit /\ [][LayoutNext]_vars

\* the system calls among the effects t
Commands(t) == SelectSeq(t, LAMBDA r : r.type = "system")

\* the step is a run of check_focus
ChecksFocus == op = "poll" /\ op' \in {"check_focus", "aborted"}

\* C39: check_focus does nothing when the focused window is the active one;
\* no command is run for the layout that is recorded; the recorded layout
\* changes only to the layout whose command has just returned 0, and a
\* command that returns another value leaves it as it is. The layout is
\* "DVORAK" until the first command has succeeded.
C39_Layout ==
    /\ [][ChecksFocus =>
             /\ st.focus = st.active =>
                    /\ Commands(trace') = <<>>
                    /\ st' = st
             /\ Len(Commands(trace')) <= 1
             /\ \A i \in 1..Len(Commands(trace')) :
                    /\ Commands(trace')[i].code # layout_cmd(st.layout)
                    /\ Commands(trace')[i].value # 0 =>
                           st'.layout = st.layout
                    /\ Commands(trace')[i].value = 0 =>
                           /\ st'.layout # st.layout
                           /\ Commands(trace')[i].code = layout_cmd(st'.layout)
             /\ st'.layout # st.layout => Commands(trace') # <<>>]_vars
    /\ [][~ChecksFocus => st'.layout = st.layout]_vars

\* the focus has gone from a window that wants "DVORAK" to NetHack, the
\* command of "ENGLISH" has exited with 1: the layout is still "DVORAK", and the
\* active window is NetHack
C39_Witness ==
    /\ op = "check_focus"
    /\ st.layout = "DVORAK"
    /\ st.focus = 2
    /\ st.active = 2
    /\ Len(Commands(trace)) = 1
    /\ Commands(trace)[1].code = "~/bin/us"
    /\ Commands(trace)[1].value = 256

----------------------------------------------------------------------------
(* The earlier controller (main.c): a loop of read_event and handle_event  *)
(* without chords, timeouts or menus. running, win, op, ev, trace and dev  *)
(* are those of this program here.                                         *)

controller_emit_key_press(key) ==
    emit_event(EV_KEY, key, 1)
    \o emit_event(EV_SYN, SYN_REPORT, 0)
    \o emit_event(EV_KEY, key, 0)
    \o emit_event(EV_SYN, SYN_REPORT, 0)

controller_map_dpad_to_arrow_keys(e) ==
    Forward(e, DPAD_UP, "KEY_UP")
    \o Forward(e, DPAD_DOWN, "KEY_DOWN")
    \o Forward(e, DPAD_RIGHT, "KEY_RIGHT")
    \o Forward(e, DPAD_LEFT, "KEY_LEFT")

\* the fork of the command k for a press of start
controller_fork_k(e) ==
    When(e.code = BTN_BASE4 /\ e.value = 1,
         <<[type |-> "fork", code |-> "k", value |-> 0]>>)

\* handle_event that takes a press of B as the request to stop whatever
\* window is focused
controller_handle_event_any_context(e, w) ==
    IF e.type # EV_KEY THEN <<>>
    ELSE controller_map_dpad_to_arrow_keys(e)
         \o When(e.code = BTN_THUMB2 /\ e.value = 1, Store("running", 0))
         \o controller_fork_k(e)

\* handle_event of main.c for the event e with the window w focused
controller_handle_event(e, w) ==
    IF e.type # EV_KEY THEN <<>>
    ELSE (IF xlib_window_has_class(w, "feh")
          THEN controller_map_dpad_to_arrow_keys(e)
          ELSE IF xlib_window_has_class(w, "mpv")
          THEN controller_map_dpad_to_arrow_keys(e)
               \o When(e.code = BTN_THUMB /\ e.value = 1,
                       controller_emit_key_press("KEY_SPACE"))
               \o When(e.code = BTN_THUMB2 /\ e.value = 1,
                       controller_emit_key_press("KEY_Q"))
          ELSE IF xlib_window_has_class(w, "dmenu")
          THEN controller_map_dpad_to_arrow_keys(e)
               \o When(e.code = BTN_THUMB /\ e.value = 1,
                       controller_emit_key_press("KEY_ENTER"))
               \o When(e.code = BTN_THUMB2 /\ e.value = 1,
                       controller_emit_key_press("KEY_ESC"))
          ELSE controller_map_dpad_to_arrow_keys(e)
               \o When(e.code = BTN_THUMB2 /\ e.value = 1,
                       Store("running", 0)))
         \o controller_fork_k(e)

\* state_deinit of main.c
controller_state_deinit ==
    <<[type |-> "close", code |-> "dpy", value |-> 0],
      [type |-> "close", code |-> "input_fd", value |-> 0],
      [type |-> "ioctl", code |-> "UI_DEV_DESTROY", value |-> 0],
      [type |-> "close", code |-> "uinput_fd", value |-> 0]>>

ControllerWindows ==
    {NoClass, {"feh"}, {"mpv"}, {"dmenu"}, {"st-256color"}, {"mpv", "gl"}}

\* main after state_init
ControllerInit ==
    /\ running = 1
    /\ win \in ControllerWindows
    /\ op = "read"
    /\ ev = NoEvent
    /\ trace = <<>>
    /\ dev = Created
    /\ k = NoKeys
    /\ mouse_mode = 0
    /\ mouse_movement_distance = 0
    /\ arg = NoArg
    /\ before = NoKeys
    /\ menu = NoMenu
    /\ sink = {}
    /\ st = NoSwitcher

\* while(s.running) { read_event(&s, &e); handle_event(&s, &e); }: the read
\* returns the record e, fewer bytes, or an error
controller_read_event(e, r) ==
    /\ op = "read"
    /\ running # 0
    /\ IF r = "full"
       THEN /\ trace' = controller_handle_event(e, win)
            /\ running' = Stored(controller_handle_event(e, win), "running",
                                 running)
            /\ ev' = e
            /\ op' = "event"
       ELSE /\ trace' = failwith(IF r = "short" THEN "unexpected partial read"
                                 ELSE "CHECK")
            /\ op' = "aborted"
            /\ UNCHANGED <<running, ev>>
    /\ UNCHANGED <<k, mouse_mode, mouse_movement_distance, win, arg, before,
                   menu, dev, sink, st>>

\* handle_event returns and the condition of the loop is tested
controller_loop ==
    /\ op = "event"
    /\ op' = "read"
    /\ trace' = <<>>
    /\ UNCHANGED <<k, mouse_mode, mouse_movement_distance, running, win, ev,
                   arg, before, menu, dev, sink, st>>

\* the loop has ended: state_deinit, return 0
controller_exit ==
    /\ op = "read"
    /\ running = 0
    /\ trace' = controller_state_deinit
    /\ dev' = [dev EXCEPT !.uinput = "closed"]
    /\ op' = "exited"
    /\ UNCHANGED <<k, mouse_mode, mouse_movement_distance, running, win, ev,
                   arg, before, menu, sink, st>>

\* the X server moves the input focus to another window
ControllerFocus(w) ==
    /\ op \in {"read", "event"}
    /\ w # win
    /\ win' = w
    /\ UNCHANGED <<k, mouse_mode, mouse_movement_distance, running, ev, arg,
                   before, menu, dev, sink, st, op, trace>>

ControllerNext ==
    \/ \E e \in InputEvents : \E r \in {"full", "short", "error"} :
          controller_read_event(e, r)
    \/ controller_loop
    \/ controller_exit
    \/ \E w \in ControllerWindows : ControllerFocus(w)

SpecController == ControllerInit /\ [][ControllerNext]_vars

\* the step is handle_event for a press of B
BPress == op = "read" /\ op' = "event" /\ ev' = Press(BTN_THUMB2)

\* the focused window is one of feh, mpv, dmenu
Matched == win \cap {"feh", "mpv", "dmenu"} # {}

\* C40: running becomes false only in handle_event for a press of B with a
\* window focused that is none of feh, mpv, dmenu, and it does so then; once
\* it is false the loop reads no event, and the next step of the program is
\* state_deinit, which destroys the uinput device before it closes it
C40_Shutdown ==
    /\ [][(running # 0 /\ running' = 0) => (BPress /\ ~Matched)]_vars
    /\ [][BPress => (running' = 0) = ~Matched]_vars
    /\ [][(running = 0 /\ op = "read" /\ op' # op) =>
             /\ op' = "exited"
             /\ dev'.uinput = "closed"
             /\ Len(trace') = 4
             /\ trace'[3].code = "UI_DEV_DESTROY"
             /\ trace'[4].type = "close"
             /\ trace'[4].code = "uinput_fd"]_vars
    /\ [][running = 0 => ~(op = "read" /\ op' = "event")]_vars

\* B was pressed with a terminal focused and the program has exited
C40_Witness ==
    /\ op = "exited"
    /\ running = 0
    /\ ev = Press(BTN_THUMB2)
    /\ ~Matched
    /\ dev.uinput = "closed"

====
